---------------------------- MODULE Spec2Model ----------------------------
(***************************************************************************)
(* Teaching board (src/App.tsx, src/components/CanvasUtils = src/unnamed/  *)
(* part_000): the item store, the selection, the pointer / wheel handlers, *)
(* the instrument tools, the paste and diagram injection, and the snapping *)
(* and compass geometry.                                                   *)
(*                                                                         *)
(* Numbers.  Coordinates are integers.  Angles are integer degrees; sine   *)
(* and cosine are exact for the multiples of 90 degrees only, so a step    *)
(* that needs the sine of another angle is outside the model (see          *)
(* TrigDefinedDown, TrigDefinedMove).  Cursor coordinates are even, so     *)
(* 0.5 * deltaY is an integer.                                             *)
(*                                                                         *)
(* Rendering.  A handler reads `items`, `currentStroke`, `mode`, ... of    *)
(* the closure of the last render (variable view) and updates the state    *)
(* through setItems(prev => ...).  React commits the updates of a discrete *)
(* event (mouse-down, mouse-up, click) before the handler returns; the     *)
(* updates of continuous events (mouse-move, mouse-leave, wheel) and of    *)
(* asynchronous callbacks are rendered later (action Render), and further  *)
(* continuous events can be handled before that.  Discrete events are      *)
(* taken to arrive after the pending render.                               *)
(*                                                                         *)
(* Specifications.  The handlers are shared; each specification runs the   *)
(* events of one aspect of the board within the bounds below:              *)
(*   Spec         the item store and the selection                         *)
(*   SpecDraw     pen, eraser and compass strokes, pointer-up              *)
(*   SpecCompass  the compass arc                                          *)
(*   SpecSnap     getSnapPoint on its own                                  *)
(*   SpecPen      the pen along a ruler with snapping on                   *)
(*   SpecSelect   pointer-down selection and the wheel                     *)
(*   SpecTrip     convertLocalToWorld and its inverse on their own         *)
(*   SpecAI       the solve and diagram requests                           *)
(*   SpecPaste    the canvas paste and the paste of the AI panel           *)
(*   SpecDrag     left and right drags of a ruler and a triangle           *)
(*   SpecLife     the ways a widget can leave the store                    *)
(*   SpecStroke   drags and wheel ticks on a board that holds a stroke     *)
(*   SpecTools    the tool buttons and the tool mode                       *)
(*   SpecAILive   SpecAI with every awaited call settling                  *)
(*   SpecArc      the compass arc over several samples                     *)
(***************************************************************************)
EXTENDS Integers, Sequences, FiniteSets, TLC

VARIABLES
    mode,            \* useState<ToolMode>                    App.tsx:21
    color,           \* useState color                        App.tsx:22
    width,           \* useState stroke width                 App.tsx:23
    strokeStyle,     \* useState<StrokeStyle>                 App.tsx:24
    items,           \* useState<CanvasItem[]>                App.tsx:26
    currentStroke,   \* useState<Stroke | null>               App.tsx:27
    snap,            \* useState<boolean>                     App.tsx:28
    isDragging,      \* useRef(false)                         App.tsx:51
    dragType,        \* useRef move | rotate | compass_arc    App.tsx:52
    lastPos,         \* useRef({x: 0, y: 0})                  App.tsx:53
    selectedItemId,  \* useRef<string | null>                 App.tsx:54
    compassPivot,    \* useRef<{x, y} | null>                 App.tsx:55
    view,            \* the state captured by the handlers' closures at the last render
    nextId,          \* the number of ids uuidv4() has handed out, plus one
    isProcessing,    \* useState busy flag                    App.tsx:35
    tikzModalOpen,   \* useState diagram modal                App.tsx:39
    request,         \* the awaited calls of handleSolve and handleGenerateTikz, counted
    decoding,        \* pasted / compiled images between FileReader and img.onload
    pastedImage,     \* useState<string | null>: the staged AI image   App.tsx:33
    ocrResult,       \* useState<AIResult | null>            App.tsx:34
    showResultModal, \* useState result modal                App.tsx:43
    reading,         \* clipboard images of handleAIPaste between the click and reader.onload
    issued,          \* while a request is awaited: the state it was issued in
    grab,            \* while a button is held on a widget: the press (cursor, button, mode) and the widget as it was
    last,            \* the handler that ran last, and the branch it took
    probe,           \* the cursor getSnapPoint was last applied to on its own
    snapResult,      \* what it returned
    trip             \* a local point, and where the two rotations take it

vars == <<mode, color, width, strokeStyle, items, currentStroke, snap,
          isDragging, dragType, lastPos, selectedItemId, compassPivot,
          view, nextId, isProcessing, tikzModalOpen, request, decoding,
          pastedImage, ocrResult, showResultModal, reading, issued, grab, last,
          probe, snapResult, trip>>

\* the state of the AI panel, and what the model records of a request
aiVars == <<pastedImage, ocrResult, showResultModal, reading, issued>>

-----------------------------------------------------------------------------
(* Bounds of the model *)

\* ids uuidv4() may hand out in one behaviour, those of the images in flight included
MaxIds == 2
\* items of the store
MaxItems == 2
\* points of the in-progress stroke
MaxPoints == 2
\* |angle| reachable by wheel ticks and rotate drags (degrees)
MaxAngle == 5
\* quarter turns reachable by a compass arc
MaxTurns == 1
\* distance a move drag may carry a widget from the canvas centre, per axis
MaxShift == 0
\* the same distance in SpecDrag
MaxDrag == 10
\* items of a board getSnapPoint is applied to on its own
MaxBoard == 2
\* images in flight between paste / compile and img.onload
MaxDecoding == 1
\* awaited calls of handleSolve and handleGenerateTikz
MaxRequests == 2
\* local coordinates of the round trip, in steps of 20, either sign
MaxLocal == 2
\* quarter turns of the round trip, either sense
MaxQuarter == 4

(* Program constants *)

HitRadius == 100
EraseRadius == 20
SnapThreshold == 20
CompassSpread == 40
CompassDefaultHeight == 150
WheelStep == 5
SnapDefaultWidth == 100
SnapDefaultHeight == 50
RulerWidth == 400
RulerHeight == 50
TriangleWidth == 200
TriangleHeight == 200
ProtractorRadius == 100
CompassHeight == 150
\* canvas.width / 2 and canvas.height / 2 of an 800 x 600 canvas
CanvasCx == 400
CanvasCy == 300
\* natural size of a decoded image
ImgWidth == 120
ImgHeight == 80

Null == [type |-> "null"]

Point(px, py) == [x |-> px, y |-> py]

-----------------------------------------------------------------------------
(* JavaScript objects: a record whose domain is the set of defined fields *)

\* {...i, f: v}
Spread(i, f, v) == [k \in DOMAIN i \cup {f} |-> IF k = f THEN v ELSE i[k]]

\* i.f, or d when the field is undefined (i.f || d for the fields that are never 0)
Get(i, f, d) == IF f \in DOMAIN i THEN i[f] ELSE d

\* (item as Widget).visible === false
IsHidden(i) == Get(i, "visible", TRUE) = FALSE

Abs(n) == IF n < 0 THEN -n ELSE n

\* Math.hypot(dx, dy) < r, for integers
HypotLess(dx, dy, r) == dx * dx + dy * dy < r * r

IndexOf(s, P(_)) ==
    IF \E k \in 1..Len(s) : P(s[k])
    THEN CHOOSE k \in 1..Len(s) : P(s[k]) /\ \A j \in 1..(k - 1) : ~P(s[j])
    ELSE 0

LastIndexOf(s, P(_)) ==
    IF \E k \in 1..Len(s) : P(s[k])
    THEN CHOOSE k \in 1..Len(s) : P(s[k]) /\ \A j \in (k + 1)..Len(s) : ~P(s[j])
    ELSE 0

MapSeq(s, F(_)) == [k \in 1..Len(s) |-> F(s[k])]

-----------------------------------------------------------------------------
(* Geometry (CanvasUtils) *)

ExactAngle(a) == a % 90 = 0

\* Math.cos((a * Math.PI) / 180), a multiple of 90
CosDeg(a) == CASE a % 360 = 0 -> 1
               [] a % 360 = 90 -> 0
               [] a % 360 = 180 -> -1
               [] a % 360 = 270 -> 0

\* Math.sin((a * Math.PI) / 180), a multiple of 90
SinDeg(a) == CASE a % 360 = 0 -> 0
               [] a % 360 = 90 -> 1
               [] a % 360 = 180 -> 0
               [] a % 360 = 270 -> -1

AxisAligned(dx, dy) == dx = 0 \/ dy = 0

\* Math.atan2(dy, dx) * 180 / Math.PI, on the axes
Atan2Deg(dy, dx) == CASE dy = 0 /\ dx >= 0 -> 0
                      [] dx = 0 /\ dy > 0 -> 90
                      [] dy = 0 /\ dx < 0 -> 180
                      [] dx = 0 /\ dy < 0 -> -90

convertLocalToWorld(lx, ly, cx, cy, a) ==
    LET cos == CosDeg(a)
        sin == SinDeg(a)
    IN  Point(lx * cos - ly * sin + cx, lx * sin + ly * cos + cy)

getCompassPoints(c) ==
    LET height == Get(c, "height", CompassDefaultHeight)
        spread == CompassSpread
    IN  [needle |-> convertLocalToWorld(-spread, height, c.x, c.y, c.angle),
         pencil |-> convertLocalToWorld(spread, height, c.x, c.y, c.angle)]


\* a rotation to local coordinates by the angle of the widget, not by its opposite
worldToLocalForward(x, y, cx, cy, a) ==
    LET cos == CosDeg(a)
        sin == SinDeg(a)
        dx == x - cx
        dy == y - cy
    IN  Point(dx * cos - dy * sin, dx * sin + dy * cos)

\* the world-to-local rotation of getSnapPoint (273-283)
worldToLocal(x, y, cx, cy, a) ==
    LET cos == CosDeg(-a)
        sin == SinDeg(-a)
        dx == x - cx
        dy == y - cy
    IN  Point(dx * cos - dy * sin, dx * sin + dy * cos)

\* a snap that reflects the cursor in the edge instead of projecting it onto the edge
SnapOnWidgetMirrored(x, y, widget, threshold) ==
    LET w == Get(widget, "width", SnapDefaultWidth)
        h == Get(widget, "height", SnapDefaultHeight)
        local == worldToLocal(x, y, widget.x, widget.y, widget.angle)
        localX == local.x
        localY == local.y
    IN  IF widget.type = "ruler"
        THEN IF 2 * localX >= -w - 2 * threshold /\ 2 * localX <= w + 2 * threshold
             THEN IF Abs(2 * localY + h) < 2 * threshold
                  THEN convertLocalToWorld(localX, -h - localY, widget.x, widget.y, widget.angle)
                  ELSE IF Abs(2 * localY - h) < 2 * threshold
                       THEN convertLocalToWorld(localX, h - localY, widget.x, widget.y, widget.angle)
                       ELSE Null
             ELSE Null
        ELSE IF localX >= 0 - threshold /\ localX <= w + threshold /\ Abs(localY) < threshold
             THEN convertLocalToWorld(localX, -localY, widget.x, widget.y, widget.angle)
             ELSE IF localY >= 0 - threshold /\ localY <= h + threshold /\ Abs(localX) < threshold
                  THEN convertLocalToWorld(-localX, localY, widget.x, widget.y, widget.angle)
                  ELSE Null

\* a ruler whose edges are taken at -h and h, not at -h/2 and h/2
SnapOnWidgetFullHeight(x, y, widget, threshold) ==
    LET w == Get(widget, "width", SnapDefaultWidth)
        h == Get(widget, "height", SnapDefaultHeight)
        cos == CosDeg(-widget.angle)
        sin == SinDeg(-widget.angle)
        dx == x - widget.x
        dy == y - widget.y
        localX == dx * cos - dy * sin
        localY == dx * sin + dy * cos
    IN  IF 2 * localX >= -w - 2 * threshold /\ 2 * localX <= w + 2 * threshold
        THEN IF Abs(localY + h) < threshold
             THEN convertLocalToWorld(localX, -h, widget.x, widget.y, widget.angle)
             ELSE IF Abs(localY - h) < threshold
                  THEN convertLocalToWorld(localX, h, widget.x, widget.y, widget.angle)
                  ELSE Null
        ELSE Null

\* a ruler that keeps the cursor's distance to the edge
SnapOnWidgetUnprojected(x, y, widget, threshold) ==
    LET w == Get(widget, "width", SnapDefaultWidth)
        h == Get(widget, "height", SnapDefaultHeight)
        dx == x - widget.x
        dy == y - widget.y
        localX == dx * CosDeg(-widget.angle) - dy * SinDeg(-widget.angle)
        localY == dx * SinDeg(-widget.angle) + dy * CosDeg(-widget.angle)
    IN  IF /\ 2 * localX >= -w - 2 * threshold
           /\ 2 * localX <= w + 2 * threshold
           /\ \/ Abs(2 * localY + h) < 2 * threshold
              \/ Abs(2 * localY - h) < 2 * threshold
        THEN convertLocalToWorld(localX, localY, widget.x, widget.y, widget.angle)
        ELSE Null

\* a triangle whose legs hold the cursor's own off-axis coordinate
SnapOnWidgetLegsUnprojected(x, y, widget, threshold) ==
    LET w == Get(widget, "width", SnapDefaultWidth)
        h == Get(widget, "height", SnapDefaultHeight)
        local == worldToLocal(x, y, widget.x, widget.y, widget.angle)
        localX == local.x
        localY == local.y
    IN  IF widget.type = "ruler"
        THEN IF 2 * localX >= -w - 2 * threshold /\ 2 * localX <= w + 2 * threshold
             THEN IF Abs(2 * localY + h) < 2 * threshold
                  THEN convertLocalToWorld(localX, -(h \div 2), widget.x, widget.y, widget.angle)
                  ELSE IF Abs(2 * localY - h) < 2 * threshold
                       THEN convertLocalToWorld(localX, h \div 2, widget.x, widget.y, widget.angle)
                       ELSE Null
             ELSE Null
        ELSE IF localX >= 0 - threshold /\ localX <= w + threshold /\ Abs(localY) < threshold
             THEN Point(x, y)
             ELSE IF localY >= 0 - threshold /\ localY <= h + threshold /\ Abs(localX) < threshold
                  THEN Point(x, y)
                  ELSE Null

\* the snap point one ruler or triangle yields for the cursor (x, y), or Null
SnapOnWidget(x, y, widget, threshold) ==
    LET w == Get(widget, "width", SnapDefaultWidth)
        h == Get(widget, "height", SnapDefaultHeight)
        local == worldToLocal(x, y, widget.x, widget.y, widget.angle)
        localX == local.x
        localY == local.y
    IN  IF widget.type = "ruler"
        THEN IF 2 * localX >= -w - 2 * threshold /\ 2 * localX <= w + 2 * threshold
             THEN IF Abs(2 * localY + h) < 2 * threshold
                  THEN convertLocalToWorld(localX, -(h \div 2), widget.x, widget.y, widget.angle)
                  ELSE IF Abs(2 * localY - h) < 2 * threshold
                       THEN convertLocalToWorld(localX, h \div 2, widget.x, widget.y, widget.angle)
                       ELSE Null
             ELSE Null
        ELSE IF localX >= 0 - threshold /\ localX <= w + threshold /\ Abs(localY) < threshold
             THEN convertLocalToWorld(localX, 0, widget.x, widget.y, widget.angle)
             ELSE IF localY >= 0 - threshold /\ localY <= h + threshold /\ Abs(localX) < threshold
                  THEN convertLocalToWorld(0, localY, widget.x, widget.y, widget.angle)
                  ELSE Null

\* a loop that does not skip the hidden widgets
SnapCandidateHidden(item) == item.type \in {"ruler", "triangle"}

\* an item the loop of getSnapPoint looks at
SnapCandidate(item) == ~IsHidden(item) /\ item.type \in {"ruler", "triangle"}

\* a loop that keeps the snap point of the last widget that yields one
getSnapPointLast(x, y, its, threshold) ==
    LET Yields(item) == SnapCandidate(item) /\ SnapOnWidget(x, y, item, threshold) # Null
        k == LastIndexOf(its, Yields)
    IN  IF k = 0 THEN Null ELSE SnapOnWidget(x, y, its[k], threshold)

\* the loop of getSnapPoint: the first snap point found is returned (264-319)
getSnapPointT(x, y, its, threshold) ==
    LET Yields(item) == SnapCandidate(item) /\ SnapOnWidget(x, y, item, threshold) # Null
        k == IndexOf(its, Yields)
    IN  IF k = 0 THEN Null ELSE SnapOnWidget(x, y, its[k], threshold)

\* getSnapPoint(x, y, items) with the default threshold
getSnapPoint(x, y, its) == getSnapPointT(x, y, its, SnapThreshold)

\* the sines and cosines getSnapPoint computes are exact
SnapDefined(its) ==
    \A k \in 1..Len(its) : SnapCandidate(its[k]) => ExactAngle(its[k].angle)

-----------------------------------------------------------------------------
(* The component: state, closures, ids *)

\* what a handler created by the current render would capture
Snapshot ==
    [items |-> items, currentStroke |-> currentStroke, mode |-> mode, snap |-> snap,
     color |-> color, width |-> width, strokeStyle |-> strokeStyle,
     isProcessing |-> isProcessing, tikzModalOpen |-> tikzModalOpen,
     pastedImage |-> pastedImage, ocrResult |-> ocrResult,
     showResultModal |-> showResultModal]

\* the closures are those of the current state
Rendered == view = Snapshot

\* the stroke literal of handleMouseDown
NewStroke(id, pts) ==
    [id |-> id, type |-> "stroke", points |-> pts,
     color |-> view.color, width |-> view.width, strokeStyle |-> view.strokeStyle]

\* 0.5 * n, n even
Half(n) == n \div 2

\* a hit test that does not skip the hidden widgets
HitHidden(item, cx, cy) ==
    /\ item.type # "stroke"
    /\ HypotLess(cx - item.x, cy - item.y, HitRadius)

\* the hit test of handleMouseDown on one item
Hit(item, cx, cy) ==
    /\ ~IsHidden(item)
    /\ item.type # "stroke"
    /\ HypotLess(cx - item.x, cy - item.y, HitRadius)

\* a find that scans the store from its first item on
ClickedIndexFirst(its, cx, cy) == IndexOf(its, LAMBDA item : Hit(item, cx, cy))

\* [...items].reverse().find(hit): its index in items, 0 when none
ClickedIndex(its, cx, cy) == LastIndexOf(its, LAMBDA item : Hit(item, cx, cy))

\* a press off the widgets that clears the selection in every mode
MissClearsAlways(m) == TRUE

\* no item clicked: the selection is cleared in select mode (176)
MissClears(m) == m = "select"

handleMouseDown(cx, cy, button) ==
    LET isRightClick == button = 2
        k == ClickedIndex(view.items, cx, cy)
        hit == k # 0
        clickedItem == view.items[k]
        arc == hit /\ isRightClick /\ clickedItem.type = "compass"
        penDown == ~isRightClick /\ view.mode = "pen"
        points == getCompassPoints(clickedItem)
        snapPos == IF view.snap THEN getSnapPoint(cx, cy, view.items) ELSE Null
        p == IF penDown /\ snapPos # Null THEN snapPos ELSE Point(cx, cy)
        drag1 == IF hit
                 THEN IF isRightClick
                      THEN IF clickedItem.type = "compass" THEN "compass_arc" ELSE "rotate"
                      ELSE IF view.mode = "select" THEN "move" ELSE dragType
                 ELSE IF MissClears(view.mode) THEN "null" ELSE dragType
        drag2 == IF penDown THEN "null" ELSE drag1
        drag3 == IF view.mode = "eraser" THEN "null" ELSE drag2
    IN  /\ items' = IF hit
                    THEN MapSeq(items, LAMBDA i : Spread(i, "selected", i.id = clickedItem.id))
                    ELSE IF MissClears(view.mode)
                         THEN MapSeq(items, LAMBDA i : Spread(i, "selected", FALSE))
                         ELSE items
        /\ selectedItemId' = IF hit THEN clickedItem.id
                             ELSE IF MissClears(view.mode) THEN 0 ELSE selectedItemId
        /\ compassPivot' = IF arc THEN points.needle ELSE compassPivot
        /\ currentStroke' = IF penDown THEN NewStroke(nextId, <<p>>)
                            ELSE IF arc THEN NewStroke(nextId, <<points.pencil>>)
                            ELSE currentStroke
        /\ nextId' = IF penDown \/ arc THEN nextId + 1 ELSE nextId
        /\ dragType' = drag3
        /\ lastPos' = p
        /\ isDragging' = TRUE
        /\ last' = [op |-> "mouseDown",
                    branch |-> IF arc THEN "compass_arc" ELSE IF hit THEN "hit" ELSE "miss"]
        /\ UNCHANGED <<mode, color, width, strokeStyle, snap,
                       isProcessing, tikzModalOpen, request, decoding>>
        /\ UNCHANGED aiVars

\* a hinge placed on the wrong side of the pivot
ArcHingeMirrored(a, height, pivot) ==
    LET spread == CompassSpread
        cos == CosDeg(a)
        sin == SinDeg(a)
        vX == -spread * cos - height * sin
        vY == -spread * sin + height * cos
    IN  Point(pivot.x + vX, pivot.y + vY)

\* the hinge that keeps the needle on pivot at angle a (handleMouseMove, 238-249)
ArcHinge(a, height, pivot) ==
    LET spread == CompassSpread
        cos == CosDeg(a)
        sin == SinDeg(a)
        vX == -spread * cos - height * sin
        vY == -spread * sin + height * cos
    IN  Point(pivot.x - vX, pivot.y - vY)

\* a pencil tip measured from the pivot, not from the hinge
ArcPencilFromPivot(a, height, pivot) ==
    LET spread == CompassSpread
        cos == CosDeg(a)
        sin == SinDeg(a)
    IN  Point(spread * cos - height * sin + pivot.x, spread * sin + height * cos + pivot.y)

\* the pencil tip handleMouseMove appends to the stroke (256-275)
ArcPencil(a, height, pivot) ==
    LET spread == CompassSpread
        cos == CosDeg(a)
        sin == SinDeg(a)
        c == ArcHinge(a, height, pivot)
    IN  Point(spread * cos - height * sin + c.x, spread * sin + height * cos + c.y)

\* mouseAngle - oldAngle
ArcDelta(cx, cy) ==
    Atan2Deg(cy - compassPivot.y, cx - compassPivot.x)
        - Atan2Deg(lastPos.y - compassPivot.y, lastPos.x - compassPivot.x)

\* setItems(prev => prev.map(...)) of the compass_arc branch
ArcItems(its, deltaAngle) ==
    MapSeq(its, LAMBDA item :
        IF item.id = selectedItemId
        THEN LET newAngle == item.angle + deltaAngle
                 c == ArcHinge(newAngle, Get(item, "height", CompassDefaultHeight), compassPivot)
             IN  Spread(Spread(Spread(item, "angle", newAngle), "x", c.x), "y", c.y)
        ELSE item)

\* a stroke that grows at its start
AppendPointFirst(prev, p) ==
    IF prev = Null THEN Null ELSE Spread(prev, "points", <<p>> \o prev.points)

\* prev => prev ? {...prev, points: [...prev.points, p]} : null
AppendPoint(prev, p) ==
    IF prev = Null THEN Null ELSE Spread(prev, "points", Append(prev.points, p))

\* a filter that tests the first point of a stroke only
ErasedByFirstPoint(its, cx, cy) ==
    SelectSeq(its, LAMBDA item :
        IF IsHidden(item) THEN TRUE
        ELSE IF item.type = "stroke"
             THEN ~HypotLess(item.points[1].x - cx, item.points[1].y - cy, EraseRadius)
             ELSE TRUE)

\* an eraser that takes the visible widgets it passes over with the strokes
ErasedWithWidgets(its, cx, cy) ==
    SelectSeq(its, LAMBDA item :
        IF IsHidden(item) THEN TRUE
        ELSE IF item.type = "stroke"
             THEN ~\E n \in 1..Len(item.points) :
                      HypotLess(item.points[n].x - cx, item.points[n].y - cy, EraseRadius)
             ELSE ~HypotLess(item.x - cx, item.y - cy, HitRadius))

\* the filter of the eraser branch
Erased(its, cx, cy) ==
    SelectSeq(its, LAMBDA item :
        IF IsHidden(item) THEN TRUE
        ELSE IF item.type = "stroke"
             THEN ~\E n \in 1..Len(item.points) :
                      HypotLess(item.points[n].x - cx, item.points[n].y - cy, EraseRadius)
             ELSE TRUE)

\* setItems(prev => prev.map(...)) of the rotate branch (286-292)
RotatedItems(its, deltaY) ==
    MapSeq(its, LAMBDA item :
        IF item.id = selectedItemId
        THEN Spread(item, "angle", item.angle + Half(deltaY))
        ELSE item)

\* a move branch that carries the strokes of the store along with the widget
MovedItemsCarrying(its, dx, dy) ==
    MapSeq(its, LAMBDA item :
        IF item.id = selectedItemId
        THEN Spread(Spread(item, "x", item.x + dx), "y", item.y + dy)
        ELSE IF item.type = "stroke"
             THEN Spread(item, "points",
                         [n \in 1..Len(item.points) |->
                             Point(item.points[n].x + dx, item.points[n].y + dy)])
             ELSE item)

\* a move that carries the widget half as far as the pointer
MovedItemsHalfway(its, dx, dy) ==
    MapSeq(its, LAMBDA item :
        IF item.id = selectedItemId
        THEN Spread(Spread(item, "x", item.x + Half(dx)), "y", item.y + Half(dy))
        ELSE item)

\* setItems(prev => prev.map(...)) of the move branch (310-315)
MovedItems(its, dx, dy) ==
    MapSeq(its, LAMBDA item :
        IF item.id = selectedItemId
        THEN Spread(Spread(item, "x", item.x + dx), "y", item.y + dy)
        ELSE item)

\* a pointer-move that is handled with no button held
MoveBranchUnheld ==
    IF dragType = "compass_arc" /\ selectedItemId # 0 /\ compassPivot # Null
         THEN "compass_arc"
    ELSE IF dragType = "rotate" /\ selectedItemId # 0 THEN "rotate"
    ELSE IF view.mode = "pen" /\ view.currentStroke # Null THEN "pen"
    ELSE IF dragType = "move" /\ selectedItemId # 0 THEN "move"
    ELSE IF view.mode = "eraser" THEN "eraser"
    ELSE "none"

\* the branch handleMouseMove takes
MoveBranch ==
    IF ~isDragging THEN "idle"
    ELSE IF dragType = "compass_arc" /\ selectedItemId # 0 /\ compassPivot # Null
         THEN "compass_arc"
    ELSE IF dragType = "rotate" /\ selectedItemId # 0 THEN "rotate"
    ELSE IF view.mode = "pen" /\ view.currentStroke # Null THEN "pen"
    ELSE IF dragType = "move" /\ selectedItemId # 0 THEN "move"
    ELSE IF view.mode = "eraser" THEN "eraser"
    ELSE "none"

handleMouseMove(cx, cy) ==
    LET b == MoveBranch
        snapPos == IF view.snap THEN getSnapPoint(cx, cy, view.items) ELSE Null
        p == IF b = "pen" /\ snapPos # Null THEN snapPos ELSE Point(cx, cy)
        k == IndexOf(view.items, LAMBDA i : i.id = selectedItemId)
        currentItem == view.items[k]
    IN  /\ items' =
             CASE b = "compass_arc" -> ArcItems(items, ArcDelta(cx, cy))
               [] b = "rotate" -> RotatedItems(items, cy - lastPos.y)
               [] b = "move" -> MovedItems(items, cx - lastPos.x, cy - lastPos.y)
               [] b = "eraser" -> Erased(items, cx, cy)
               [] OTHER -> items
        /\ currentStroke' =
             CASE b = "compass_arc" /\ k # 0 ->
                    AppendPoint(currentStroke,
                        ArcPencil(currentItem.angle + ArcDelta(cx, cy),
                                  Get(currentItem, "height", CompassDefaultHeight),
                                  compassPivot))
               [] b = "pen" -> AppendPoint(currentStroke, p)
               [] OTHER -> currentStroke
        /\ lastPos' = IF b = "idle" THEN lastPos ELSE p
        /\ last' = [op |-> "mouseMove", branch |-> b]
        /\ UNCHANGED <<mode, color, width, strokeStyle, snap, isDragging, grab, dragType,
                       selectedItemId, compassPivot, nextId,
                       isProcessing, tikzModalOpen, request, decoding>>
        /\ UNCHANGED aiVars

\* which of the two finalising branches handleMouseUp takes
UpBranch ==
    IF dragType = "compass_arc" /\ view.currentStroke # Null THEN "compass_arc"
    ELSE IF view.mode = "pen" /\ view.currentStroke # Null THEN "pen"
    ELSE "none"

\* a pointer-up that puts the stroke under the items of the store
StoredFirst(its, stroke) == <<stroke>> \o its

\* setItems(prev => [...prev, currentStroke]) (338, 343)
Stored(its, stroke) == Append(its, stroke)

handleMouseUp ==
    /\ isDragging' = FALSE
    /\ grab' = Null
    /\ IF UpBranch # "none"
       THEN /\ items' = Stored(items, view.currentStroke)
            /\ currentStroke' = Null
       ELSE UNCHANGED <<items, currentStroke>>
    /\ dragType' = "null"
    /\ compassPivot' = Null
    /\ UNCHANGED <<mode, color, width, strokeStyle, snap, lastPos, selectedItemId,
                   nextId, isProcessing, tikzModalOpen, request, decoding>>
    /\ UNCHANGED aiVars

handleWheel(deltaY) ==
    LET sign == IF deltaY > 0 THEN 1 ELSE IF deltaY < 0 THEN -1 ELSE 0
        delta == sign * WheelStep
    IN  /\ items' = IF selectedItemId # 0
                    THEN MapSeq(items, LAMBDA item :
                             IF item.id = selectedItemId /\ item.type # "stroke"
                             THEN Spread(item, "angle", Get(item, "angle", 0) + delta)
                             ELSE item)
                    ELSE items
        /\ last' = [op |-> "wheel", branch |-> IF selectedItemId # 0 THEN "selected" ELSE "none"]
        /\ UNCHANGED <<mode, color, width, strokeStyle, currentStroke, snap, isDragging, grab,
                       dragType, lastPos, selectedItemId, compassPivot, nextId,
                       isProcessing, tikzModalOpen, request, decoding>>
        /\ UNCHANGED aiVars

-----------------------------------------------------------------------------
(* Tools, layer panel, paste, diagram injection *)

Singletons == {"ruler", "protractor", "triangle", "compass"}

\* the widget literal of addWidget (400-412); undefined extents are left out
NewWidget(id, type) ==
    LET base == [id |-> id, type |-> type, x |-> CanvasCx, y |-> CanvasCy, angle |-> 0,
                 scale |-> <<1, 1>>, selected |-> TRUE, visible |-> TRUE]
    IN  CASE type = "ruler" ->
               Spread(Spread(base, "width", RulerWidth), "height", RulerHeight)
          [] type = "triangle" ->
               Spread(Spread(base, "width", TriangleWidth), "height", TriangleHeight)
          [] type = "compass" -> Spread(base, "height", CompassHeight)
          [] type = "protractor" -> Spread(base, "radius", ProtractorRadius)
          [] OTHER -> base

\* the image widget of handleCanvasPaste (scale 0.5) and handleGenerateTikz (scale 1)
NewImage(id, kind) ==
    [id |-> id, type |-> "image", x |-> CanvasCx, y |-> CanvasCy, angle |-> 0,
     scale |-> IF kind = "paste" THEN <<1, 2>> ELSE <<1, 1>>,
     selected |-> TRUE, visible |-> TRUE, src |-> kind,
     width |-> ImgWidth, height |-> ImgHeight]

\* a toggle that enters select mode when it hides the instrument as well
EntersSelectAlways(willBeVisible) == TRUE

\* if (willBeVisible) { ...; setMode('select') } (383-385)
EntersSelect(willBeVisible) == willBeVisible

\* an addWidget that appends a new widget whether or not one of the type exists
addWidgetAlways(type) ==
    LET widget == NewWidget(nextId, type)
    IN  /\ mode' = "select"
        /\ items' = Append(MapSeq(items, LAMBDA i : Spread(i, "selected", FALSE)), widget)
        /\ selectedItemId' = widget.id
        /\ nextId' = nextId + 1
        /\ last' = [op |-> "addWidget", branch |-> "new"]
        /\ UNCHANGED <<color, width, strokeStyle, currentStroke, snap, isDragging, grab, dragType,
                       lastPos, compassPivot, isProcessing, tikzModalOpen, request, decoding>>
        /\ UNCHANGED aiVars

addWidget(type) ==
    LET existingIndex == IndexOf(view.items, LAMBDA i : i.type = type)
        existing == view.items[existingIndex]
        willBeVisible == IsHidden(existing)
        widget == NewWidget(nextId, type)
    IN  /\ IF type \in Singletons /\ existingIndex # 0
           THEN /\ items' = [idx \in 1..Len(items) |->
                                IF idx = existingIndex
                                THEN Spread(Spread(items[idx], "visible", willBeVisible),
                                            "selected", willBeVisible)
                                ELSE Spread(items[idx], "selected", FALSE)]
                /\ selectedItemId' = IF willBeVisible THEN existing.id
                                     ELSE IF selectedItemId = existing.id THEN 0
                                          ELSE selectedItemId
                /\ mode' = IF EntersSelect(willBeVisible) THEN "select" ELSE mode
                /\ UNCHANGED nextId
           ELSE /\ mode' = "select"
                /\ items' = Append(MapSeq(items, LAMBDA i : Spread(i, "selected", FALSE)), widget)
                /\ selectedItemId' = widget.id
                /\ nextId' = nextId + 1
        /\ last' = [op |-> "addWidget",
                    branch |-> IF type \in Singletons /\ existingIndex # 0 THEN "toggle" ELSE "new"]
        /\ UNCHANGED <<color, width, strokeStyle, currentStroke, snap, isDragging, grab, dragType,
                       lastPos, compassPivot, isProcessing, tikzModalOpen, request, decoding>>
        /\ UNCHANGED aiVars

\* the ids of the rows of the layer panel: widgetItems (575)
LayerIds == {view.items[k].id : k \in {j \in 1..Len(view.items) : view.items[j].type # "stroke"}}

toggleVisibility(id) ==
    /\ items' = MapSeq(items, LAMBDA item :
                    IF item.id = id
                    THEN Spread(item, "visible", ~Get(item, "visible", FALSE))
                    ELSE item)
    /\ last' = [op |-> "other", branch |-> "none"]
    /\ UNCHANGED <<mode, color, width, strokeStyle, currentStroke, snap, isDragging, grab, dragType,
                   lastPos, selectedItemId, compassPivot, nextId,
                   isProcessing, tikzModalOpen, request, decoding>>
    /\ UNCHANGED aiVars

deleteItem(id) ==
    /\ items' = SelectSeq(items, LAMBDA i : i.id # id)
    /\ last' = [op |-> "other", branch |-> "none"]
    /\ UNCHANGED <<mode, color, width, strokeStyle, currentStroke, snap, isDragging, grab, dragType,
                   lastPos, selectedItemId, compassPivot, nextId,
                   isProcessing, tikzModalOpen, request, decoding>>
    /\ UNCHANGED aiVars

\* the onClick of a row of the layer panel (658-661)
layerSelect(id) ==
    /\ items' = MapSeq(items, LAMBDA i : Spread(i, "selected", i.id = id))
    /\ selectedItemId' = id
    /\ last' = [op |-> "other", branch |-> "none"]
    /\ UNCHANGED <<mode, color, width, strokeStyle, currentStroke, snap, isDragging, grab, dragType,
                   lastPos, compassPivot, nextId,
                   isProcessing, tikzModalOpen, request, decoding>>
    /\ UNCHANGED aiVars

\* a Clear Board that leaves the hidden items in the store
clearBoardVisible ==
    /\ items' = SelectSeq(items, IsHidden)
    /\ last' = [op |-> "clearBoard",
                branch |-> IF \E k \in 1..Len(items) : IsHidden(items[k])
                           THEN "hidden" ELSE "none"]
    /\ UNCHANGED <<mode, color, width, strokeStyle, currentStroke, snap, isDragging, grab, dragType,
                   lastPos, selectedItemId, compassPivot, nextId,
                   isProcessing, tikzModalOpen, request, decoding>>
    /\ UNCHANGED aiVars

\* Clear Board: setItems([]) (696)
clearBoard ==
    /\ items' = <<>>
    /\ last' = [op |-> "clearBoard",
                branch |-> IF \E k \in 1..Len(items) : IsHidden(items[k])
                           THEN "hidden" ELSE "none"]
    /\ UNCHANGED <<mode, color, width, strokeStyle, currentStroke, snap, isDragging, grab, dragType,
                   lastPos, selectedItemId, compassPivot, nextId,
                   isProcessing, tikzModalOpen, request, decoding>>
    /\ UNCHANGED aiVars

\* the Select, Pen and Eraser buttons (600-602)
setMode(m) ==
    /\ mode' = m
    /\ last' = [op |-> "other", branch |-> "none"]
    /\ UNCHANGED <<color, width, strokeStyle, items, currentStroke, snap, isDragging, grab, dragType,
                   lastPos, selectedItemId, compassPivot, nextId,
                   isProcessing, tikzModalOpen, request, decoding>>
    /\ UNCHANGED aiVars

\* setSnap(!snap) (743)
toggleSnap ==
    /\ snap' = ~view.snap
    /\ last' = [op |-> "other", branch |-> "none"]
    /\ UNCHANGED <<mode, color, width, strokeStyle, items, currentStroke, isDragging, grab, dragType,
                   lastPos, selectedItemId, compassPivot, nextId,
                   isProcessing, tikzModalOpen, request, decoding>>
    /\ UNCHANGED aiVars

\* the colour buttons of the properties bar (702-709)
setColor(c) ==
    /\ color' = c
    /\ last' = [op |-> "other", branch |-> "none"]
    /\ UNCHANGED <<mode, width, strokeStyle, items, currentStroke, snap, isDragging, grab, dragType,
                   lastPos, selectedItemId, compassPivot, nextId,
                   isProcessing, tikzModalOpen, request, decoding>>
    /\ UNCHANGED aiVars

\* the stroke width buttons (713-721)
setWidth(w) ==
    /\ width' = w
    /\ last' = [op |-> "other", branch |-> "none"]
    /\ UNCHANGED <<mode, color, strokeStyle, items, currentStroke, snap, isDragging, grab, dragType,
                   lastPos, selectedItemId, compassPivot, nextId,
                   isProcessing, tikzModalOpen, request, decoding>>
    /\ UNCHANGED aiVars

\* the stroke style buttons (726-735)
setStrokeStyle(st) ==
    /\ strokeStyle' = st
    /\ last' = [op |-> "other", branch |-> "none"]
    /\ UNCHANGED <<mode, color, width, items, currentStroke, snap, isDragging, grab, dragType,
                   lastPos, selectedItemId, compassPivot, nextId,
                   isProcessing, tikzModalOpen, request, decoding>>
    /\ UNCHANGED aiVars

\* handleCanvasPaste: n image entries of the clipboard go to FileReader, unless an input has focus
handleCanvasPaste(inputFocused, n) ==
    /\ decoding' = IF inputFocused THEN decoding
                   ELSE [decoding EXCEPT !.paste = @ + n]
    /\ last' = [op |-> "other", branch |-> "none"]
    /\ UNCHANGED <<mode, color, width, strokeStyle, items, currentStroke, snap, isDragging, grab,
                   dragType, lastPos, selectedItemId, compassPivot, nextId,
                   isProcessing, tikzModalOpen, request>>
    /\ UNCHANGED aiVars

\* img.onload of handleCanvasPaste (456-472)
pasteImgOnload ==
    /\ decoding.paste > 0
    /\ decoding' = [decoding EXCEPT !.paste = @ - 1]
    /\ items' = Append(items, NewImage(nextId, "paste"))
    /\ nextId' = nextId + 1
    /\ mode' = "select"
    /\ last' = [op |-> "imgOnload", branch |-> "paste"]
    /\ UNCHANGED <<color, width, strokeStyle, currentStroke, snap, isDragging, grab, dragType,
                   lastPos, selectedItemId, compassPivot,
                   isProcessing, tikzModalOpen, request>>
    /\ UNCHANGED aiVars

\* the TikZ button (633) and the modal's Cancel button (886)
setTikzModalOpen(b) ==
    /\ tikzModalOpen' = b
    /\ last' = [op |-> "other", branch |-> "none"]
    /\ UNCHANGED <<mode, color, width, strokeStyle, items, currentStroke, snap, isDragging, grab,
                   dragType, lastPos, selectedItemId, compassPivot, nextId,
                   isProcessing, request, decoding>>
    /\ UNCHANGED aiVars

\* the data URL reader.readAsDataURL makes of the clipboard image (490-492)
DataUrl == [type |-> "dataURL"]

\* what solveMathFromImage resolves to (521)
AIResult == [type |-> "AIResult"]

\* the state the rollback of a failed request would restore
PreRequest ==
    [items |-> items, pastedImage |-> pastedImage, ocrResult |-> ocrResult,
     showResultModal |-> showResultModal, tikzModalOpen |-> tikzModalOpen]

\* a handleSolve whose button is not disabled while isProcessing
handleSolveReentrant ==
    /\ view.pastedImage # Null
    /\ isProcessing' = TRUE
    /\ request' = [request EXCEPT !.solve = @ + 1]
    /\ issued' = PreRequest
    /\ last' = [op |-> "other", branch |-> "none"]
    /\ UNCHANGED <<mode, color, width, strokeStyle, items, currentStroke, snap, isDragging, grab,
                   dragType, lastPos, selectedItemId, compassPivot, nextId,
                   tikzModalOpen, decoding, pastedImage, ocrResult, showResultModal, reading>>

\* handleSolve up to its await (513-520); the button is disabled while
\* isProcessing and while no image is staged (831-832)
handleSolve ==
    /\ ~view.isProcessing
    /\ view.pastedImage # Null
    /\ isProcessing' = TRUE
    /\ request' = [request EXCEPT !.solve = @ + 1]
    /\ issued' = PreRequest
    /\ last' = [op |-> "other", branch |-> "none"]
    /\ UNCHANGED <<mode, color, width, strokeStyle, items, currentStroke, snap, isDragging, grab,
                   dragType, lastPos, selectedItemId, compassPivot, nextId,
                   tikzModalOpen, decoding, pastedImage, ocrResult, showResultModal, reading>>

\* solveMathFromImage resolved (521-523, 526-528)
solveResolved ==
    /\ request.solve > 0
    /\ request' = [request EXCEPT !.solve = @ - 1]
    /\ ocrResult' = AIResult
    /\ showResultModal' = TRUE
    /\ isProcessing' = FALSE
    /\ issued' = Null
    /\ last' = [op |-> "other", branch |-> "none"]
    /\ UNCHANGED <<mode, color, width, strokeStyle, items, currentStroke, snap, isDragging, grab,
                   dragType, lastPos, selectedItemId, compassPivot, nextId,
                   tikzModalOpen, decoding, pastedImage, reading>>

\* a catch of handleSolve with no finally: the failure leaves the busy flag set
solveRejectedBusy ==
    /\ request.solve > 0
    /\ request' = [request EXCEPT !.solve = @ - 1]
    /\ issued' = Null
    /\ last' = [op |-> "request", branch |-> "rejected"]
    /\ UNCHANGED <<isProcessing, mode, color, width, strokeStyle, items, currentStroke, snap, isDragging, grab,
                   dragType, lastPos, selectedItemId, compassPivot, nextId,
                   tikzModalOpen, decoding, pastedImage, ocrResult, showResultModal, reading>>

\* solveMathFromImage rejected (524-528)
solveRejected ==
    /\ request.solve > 0
    /\ request' = [request EXCEPT !.solve = @ - 1]
    /\ isProcessing' = FALSE
    /\ issued' = Null
    /\ last' = [op |-> "request", branch |-> "rejected"]
    /\ UNCHANGED <<mode, color, width, strokeStyle, items, currentStroke, snap, isDragging, grab,
                   dragType, lastPos, selectedItemId, compassPivot, nextId,
                   tikzModalOpen, decoding, pastedImage, ocrResult, showResultModal, reading>>

\* handleGenerateTikz up to its first await (540-543); the button is in the open
\* modal and is disabled while isProcessing (892-893)
handleGenerateTikz ==
    /\ view.tikzModalOpen
    /\ ~view.isProcessing
    /\ isProcessing' = TRUE
    /\ request' = [request EXCEPT !.generate = @ + 1]
    /\ issued' = PreRequest
    /\ last' = [op |-> "other", branch |-> "none"]
    /\ UNCHANGED <<mode, color, width, strokeStyle, items, currentStroke, snap, isDragging, grab,
                   dragType, lastPos, selectedItemId, compassPivot, nextId,
                   tikzModalOpen, decoding, pastedImage, ocrResult, showResultModal, reading>>

\* generateTikzCode resolved: compileTikz posts the code (543-544, 1117-1129)
tikzCodeResolved ==
    /\ request.generate > 0
    /\ request' = [request EXCEPT !.generate = @ - 1, !.compile = @ + 1]
    /\ last' = [op |-> "other", branch |-> "none"]
    /\ UNCHANGED <<mode, color, width, strokeStyle, items, currentStroke, snap, isDragging, grab,
                   dragType, lastPos, selectedItemId, compassPivot, nextId,
                   isProcessing, tikzModalOpen, decoding,
                   pastedImage, ocrResult, showResultModal, reading, issued>>

\* a catch that closes the diagram modal
tikzCodeRejectedClosing ==
    /\ request.generate > 0
    /\ request' = [request EXCEPT !.generate = @ - 1]
    /\ isProcessing' = FALSE
    /\ tikzModalOpen' = FALSE
    /\ issued' = Null
    /\ last' = [op |-> "request", branch |-> "rejected"]
    /\ UNCHANGED <<mode, color, width, strokeStyle, items, currentStroke, snap, isDragging, grab,
                   dragType, lastPos, selectedItemId, compassPivot, nextId,
                   decoding, pastedImage, ocrResult, showResultModal, reading>>

\* generateTikzCode rejected (567-571)
tikzCodeRejected ==
    /\ request.generate > 0
    /\ request' = [request EXCEPT !.generate = @ - 1]
    /\ isProcessing' = FALSE
    /\ issued' = Null
    /\ last' = [op |-> "request", branch |-> "rejected"]
    /\ UNCHANGED <<mode, color, width, strokeStyle, items, currentStroke, snap, isDragging, grab,
                   dragType, lastPos, selectedItemId, compassPivot, nextId,
                   tikzModalOpen, decoding, pastedImage, ocrResult, showResultModal, reading>>

\* what the compile service may answer: the HTTP status, and the ok, log and
\* image_base64 fields of the body ("" and "undefined": a field that is not there)
Responses ==
    [httpOk : {TRUE}, ok : BOOLEAN, log : {"", "log"}, image_base64 : {"undefined", "png"}]
        \cup {[httpOk |-> FALSE, ok |-> FALSE, log |-> "", image_base64 |-> "undefined"]}

\* compileTikz, from the response of fetch on (1131-1140)
compileTikz(response) ==
    IF ~response.httpOk
    THEN [rejected |-> TRUE, value |-> "undefined"]
    ELSE IF ~response.ok /\ response.log # ""
         THEN [rejected |-> TRUE, value |-> "undefined"]
         ELSE [rejected |-> FALSE, value |-> response.image_base64]

\* the compile service answered: the rest of handleGenerateTikz (544-571).  An
\* image whose data is not there never loads, so its img.onload never runs
tikzCompiled(response) ==
    LET base64Img == compileTikz(response)
    IN  /\ request.compile > 0
        /\ request' = [request EXCEPT !.compile = @ - 1]
        /\ IF base64Img.rejected
           THEN UNCHANGED <<tikzModalOpen, decoding>>
           ELSE /\ tikzModalOpen' = FALSE
                /\ decoding' = IF base64Img.value = "undefined" THEN decoding
                               ELSE [decoding EXCEPT !.tikz = @ + 1]
        /\ isProcessing' = FALSE
        /\ issued' = Null
        /\ last' = IF base64Img.rejected THEN [op |-> "request", branch |-> "rejected"]
                   ELSE [op |-> "other", branch |-> "none"]
        /\ UNCHANGED <<mode, color, width, strokeStyle, items, currentStroke, snap, isDragging, grab,
                       dragType, lastPos, selectedItemId, compassPivot, nextId,
                       pastedImage, ocrResult, showResultModal, reading>>

\* handleAIPaste: the clipboard is read, and its first image goes to FileReader
\* (482-497); without an image, or without the permission, an alert (498-503)
handleAIPaste(hasImage) ==
    /\ reading' = IF hasImage THEN reading + 1 ELSE reading
    /\ last' = [op |-> "other", branch |-> "none"]
    /\ UNCHANGED <<mode, color, width, strokeStyle, items, currentStroke, snap, isDragging, grab,
                   dragType, lastPos, selectedItemId, compassPivot, nextId,
                   isProcessing, tikzModalOpen, request, decoding,
                   pastedImage, ocrResult, showResultModal, issued>>

\* a reader.onload that puts the image on the board as well
aiPasteOnloadToBoard ==
    /\ reading > 0
    /\ reading' = reading - 1
    /\ pastedImage' = DataUrl
    /\ items' = Append(items, NewImage(nextId, "paste"))
    /\ nextId' = nextId + 1
    /\ last' = [op |-> "other", branch |-> "none"]
    /\ UNCHANGED <<mode, color, width, strokeStyle, currentStroke, snap, isDragging, grab,
                   dragType, lastPos, selectedItemId, compassPivot,
                   isProcessing, tikzModalOpen, request, decoding,
                   ocrResult, showResultModal, issued>>

\* reader.onload of handleAIPaste (490-494); the AI panel is open already
aiPasteOnload ==
    /\ reading > 0
    /\ reading' = reading - 1
    /\ pastedImage' = DataUrl
    /\ last' = [op |-> "other", branch |-> "none"]
    /\ UNCHANGED <<mode, color, width, strokeStyle, items, currentStroke, snap, isDragging, grab,
                   dragType, lastPos, selectedItemId, compassPivot, nextId,
                   isProcessing, tikzModalOpen, request, decoding,
                   ocrResult, showResultModal, issued>>

\* the trash button on the staged image (802)
clearPastedImage ==
    /\ view.pastedImage # Null
    /\ pastedImage' = Null
    /\ last' = [op |-> "other", branch |-> "none"]
    /\ UNCHANGED <<mode, color, width, strokeStyle, items, currentStroke, snap, isDragging, grab,
                   dragType, lastPos, selectedItemId, compassPivot, nextId,
                   isProcessing, tikzModalOpen, request, decoding,
                   ocrResult, showResultModal, reading, issued>>

\* Show Last Result (840-841) and the two close buttons of the result modal (913, 954)
setShowResultModal(b) ==
    /\ view.ocrResult # Null
    /\ view.showResultModal # b
    /\ showResultModal' = b
    /\ last' = [op |-> "other", branch |-> "none"]
    /\ UNCHANGED <<mode, color, width, strokeStyle, items, currentStroke, snap, isDragging, grab,
                   dragType, lastPos, selectedItemId, compassPivot, nextId,
                   isProcessing, tikzModalOpen, request, decoding,
                   pastedImage, ocrResult, reading, issued>>

\* an img.onload that deselects the items of the store
tikzImgOnloadDeselecting ==
    /\ decoding.tikz > 0
    /\ decoding' = [decoding EXCEPT !.tikz = @ - 1]
    /\ items' = Append(MapSeq(items, LAMBDA i : Spread(i, "selected", FALSE)),
                       NewImage(nextId, "tikz"))
    /\ nextId' = nextId + 1
    /\ last' = [op |-> "imgOnload", branch |-> "tikz"]
    /\ UNCHANGED <<mode, color, width, strokeStyle, currentStroke, snap, isDragging, grab, dragType,
                   lastPos, selectedItemId, compassPivot,
                   isProcessing, tikzModalOpen, request>>
    /\ UNCHANGED aiVars

\* img.onload of handleGenerateTikz (548-563)
tikzImgOnload ==
    /\ decoding.tikz > 0
    /\ decoding' = [decoding EXCEPT !.tikz = @ - 1]
    /\ items' = Append(items, NewImage(nextId, "tikz"))
    /\ nextId' = nextId + 1
    /\ last' = [op |-> "imgOnload", branch |-> "tikz"]
    /\ UNCHANGED <<mode, color, width, strokeStyle, currentStroke, snap, isDragging, grab, dragType,
                   lastPos, selectedItemId, compassPivot,
                   isProcessing, tikzModalOpen, request>>
    /\ UNCHANGED aiVars

-----------------------------------------------------------------------------
(* Events.  A discrete event finds the closures of the current state and    *)
(* commits its updates before it returns; a continuous event or an          *)
(* asynchronous callback leaves the render pending.                         *)

Render ==
    /\ ~Rendered
    /\ view' = Snapshot
    /\ UNCHANGED <<mode, color, width, strokeStyle, items, currentStroke, snap,
                   isDragging, grab, dragType, lastPos, selectedItemId, compassPivot,
                   nextId, isProcessing, tikzModalOpen, request, decoding, last>>
    /\ UNCHANGED aiVars

\* the sines, cosines and arc tangents handleMouseDown computes are exact
TrigDefinedDown(cx, cy, button) ==
    LET k == ClickedIndex(view.items, cx, cy)
    IN  /\ (k # 0 /\ button = 2 /\ view.items[k].type = "compass")
               => ExactAngle(view.items[k].angle)
        /\ (button # 2 /\ view.mode = "pen" /\ view.snap) => SnapDefined(view.items)

\* the sines, cosines and arc tangents handleMouseMove computes are exact
TrigDefinedMove(cx, cy) ==
    /\ MoveBranch = "compass_arc" =>
          /\ AxisAligned(cx - compassPivot.x, cy - compassPivot.y)
          /\ AxisAligned(lastPos.x - compassPivot.x, lastPos.y - compassPivot.y)
          /\ \A k \in 1..Len(items) :
                items[k].id = selectedItemId => ExactAngle(items[k].angle)
          /\ \A k \in 1..Len(view.items) :
                view.items[k].id = selectedItemId => ExactAngle(view.items[k].angle)
    /\ MoveBranch = "rotate" => (cy - lastPos.y) % 2 = 0
    /\ (MoveBranch = "pen" /\ view.snap) => SnapDefined(view.items)

MouseDown(c, button) ==
    /\ Rendered
    /\ TrigDefinedDown(c.x, c.y, button)
    /\ handleMouseDown(c.x, c.y, button)
    /\ view' = Snapshot'
    /\ UNCHANGED grab

\* the press of a pointer-down at c and the widget under it as the handler finds it
Grabbing(c, button) ==
    LET k == ClickedIndex(view.items, c.x, c.y)
        clickedItem == view.items[k]
    IN  IF k # 0
        THEN [cursor |-> c, button |-> button, mode |-> view.mode,
              id |-> clickedItem.id, type |-> clickedItem.type,
              x |-> clickedItem.x, y |-> clickedItem.y, angle |-> clickedItem.angle]
        ELSE Null

\* onMouseDown={handleMouseDown}, the press recorded for the drag that follows
Press(c, button) ==
    /\ Rendered
    /\ TrigDefinedDown(c.x, c.y, button)
    /\ handleMouseDown(c.x, c.y, button)
    /\ view' = Snapshot'
    /\ grab' = Grabbing(c, button)

MouseMove(c) ==
    /\ TrigDefinedMove(c.x, c.y)
    /\ handleMouseMove(c.x, c.y)
    /\ UNCHANGED view

\* onMouseUp={handleMouseUp} (763)
MouseUp ==
    /\ Rendered
    /\ handleMouseUp
    /\ last' = [op |-> "other", branch |-> "none"]
    /\ view' = Snapshot'

\* onMouseLeave={handleMouseUp} (764)
MouseLeave ==
    /\ handleMouseUp
    /\ last' = [op |-> "other", branch |-> "none"]
    /\ UNCHANGED view

Wheel(deltaY) ==
    /\ handleWheel(deltaY)
    /\ UNCHANGED view

AddWidget(type) == Rendered /\ addWidget(type) /\ view' = Snapshot'

ToggleVisibility(id) == Rendered /\ toggleVisibility(id) /\ view' = Snapshot'

DeleteItem(id) == Rendered /\ deleteItem(id) /\ view' = Snapshot'

LayerSelect(id) == Rendered /\ layerSelect(id) /\ view' = Snapshot'

ClearBoard == Rendered /\ clearBoard /\ view' = Snapshot'

SetMode(m) == Rendered /\ setMode(m) /\ view' = Snapshot'

ToggleSnap == Rendered /\ toggleSnap /\ view' = Snapshot'

SetColor(c) == Rendered /\ setColor(c) /\ view' = Snapshot'

SetWidth(w) == Rendered /\ setWidth(w) /\ view' = Snapshot'

SetStrokeStyle(st) == Rendered /\ setStrokeStyle(st) /\ view' = Snapshot'

CanvasPaste(inputFocused, n) == handleCanvasPaste(inputFocused, n) /\ UNCHANGED view

PasteImgOnload == pasteImgOnload /\ UNCHANGED view

SetTikzModalOpen(b) == Rendered /\ setTikzModalOpen(b) /\ view' = Snapshot'

GenerateTikz == Rendered /\ handleGenerateTikz /\ view' = Snapshot'

TikzCodeResolved == tikzCodeResolved /\ UNCHANGED view

TikzCodeRejected == tikzCodeRejected /\ UNCHANGED view

TikzCompiled(response) == tikzCompiled(response) /\ UNCHANGED view

Solve == Rendered /\ handleSolve /\ view' = Snapshot'

SolveResolved == solveResolved /\ UNCHANGED view

SolveRejected == solveRejected /\ UNCHANGED view

AIPaste(hasImage) == Rendered /\ handleAIPaste(hasImage) /\ view' = Snapshot'

AIPasteOnload == aiPasteOnload /\ UNCHANGED view

ClearPastedImage == Rendered /\ clearPastedImage /\ view' = Snapshot'

SetShowResultModal(b) == Rendered /\ setShowResultModal(b) /\ view' = Snapshot'

TikzImgOnload == tikzImgOnload /\ UNCHANGED view


\* getSnapPoint(x, y, items) applied on its own to the items of the store
Probe(c) ==
    /\ SnapDefined(items)
    /\ probe' = c
    /\ snapResult' = getSnapPoint(c.x, c.y, items)
    /\ UNCHANGED <<mode, color, width, strokeStyle, items, currentStroke, snap,
                   isDragging, grab, dragType, lastPos, selectedItemId, compassPivot,
                   view, nextId, isProcessing, tikzModalOpen, request, decoding, last,
                   trip>>
    /\ UNCHANGED aiVars

\* convertLocalToWorld applied to a local point, and the world-to-local
\* rotation of getSnapPoint applied to what it returns
RoundTrip(p, pivot, a) ==
    LET world == convertLocalToWorld(p.x, p.y, pivot.x, pivot.y, a)
    IN  /\ trip' = [local |-> p, pivot |-> pivot, angle |-> a, world |-> world,
                    back |-> worldToLocal(world.x, world.y, pivot.x, pivot.y, a)]
        /\ UNCHANGED <<mode, color, width, strokeStyle, items, currentStroke, snap,
                       isDragging, grab, dragType, lastPos, selectedItemId, compassPivot,
                       view, nextId, isProcessing, tikzModalOpen, request, decoding, last,
                       probe, snapResult>>
        /\ UNCHANGED aiVars

-----------------------------------------------------------------------------
(* Inputs and bounds shared by the specifications *)

Buttons == {0, 2}

Tools == {"ruler", "compass", "triangle", "protractor", "text"}

Modes == {"select", "pen", "eraser"}

IsWidget(i) == i.type \notin {"stroke", "null"}

AngleOk(a) == Abs(a) <= MaxAngle \/ (a % 90 = 0 /\ Abs(a) <= 90 * MaxTurns)

\* the part of the state space the model explores, a dragged widget staying
\* within shift of the canvas centre
BoundedBy(ids, n, pts, shift) ==
    /\ nextId + decoding.paste + decoding.tikz <= ids + 1
    /\ Len(items) <= n
    /\ currentStroke # Null => Len(currentStroke.points) <= pts
    /\ decoding.paste + decoding.tikz <= MaxDecoding
    /\ reading <= MaxDecoding
    /\ request.solve + request.generate + request.compile <= MaxRequests
    /\ \A k \in 1..Len(items) : IsWidget(items[k]) => AngleOk(items[k].angle)
    /\ last.branch = "move" =>
          \A k \in 1..Len(items) :
             (IsWidget(items[k]) /\ items[k].id = selectedItemId) =>
                 /\ Abs(items[k].x - CanvasCx) <= shift
                 /\ Abs(items[k].y - CanvasCy) <= shift

Bounded == BoundedBy(MaxIds, MaxItems, MaxPoints, MaxShift)

\* a step of the component within the bounds
Step(A) == A /\ Bounded' /\ UNCHANGED <<probe, snapResult, trip>>

\* a step of the component within the bounds, drags of MaxDrag allowed
StepDrag(A) == A /\ BoundedBy(MaxIds, MaxItems, MaxPoints, MaxDrag)' /\ UNCHANGED <<probe, snapResult, trip>>

\* the component after it has mounted (21-55), but for the item store
Mounted ==
    /\ mode = "select"
    /\ color = "#000000"
    /\ width = 4
    /\ strokeStyle = "solid"
    /\ currentStroke = Null
    /\ snap = TRUE
    /\ isDragging = FALSE
    /\ dragType = "null"
    /\ lastPos = Point(0, 0)
    /\ selectedItemId = 0
    /\ compassPivot = Null
    /\ isProcessing = FALSE
    /\ tikzModalOpen = FALSE
    /\ request = [solve |-> 0, generate |-> 0, compile |-> 0]
    /\ decoding = [paste |-> 0, tikz |-> 0]
    /\ last = [op |-> "init", branch |-> "none"]
    /\ pastedImage = Null
    /\ ocrResult = Null
    /\ showResultModal = FALSE
    /\ reading = 0
    /\ issued = Null
    /\ grab = Null
    /\ probe = Null
    /\ snapResult = Null
    /\ trip = Null

\* the state after the component has mounted (21-55)
Init ==
    /\ Mounted
    /\ items = <<>>
    /\ nextId = 1
    /\ view = Snapshot

-----------------------------------------------------------------------------
(* Spec: the item store and the selection.  The instrument tools, the layer  *)
(* panel, Clear Board, the canvas paste, pointer-down / up on and off the    *)
(* widgets.                                                                  *)

\* one cursor within HitRadius of the canvas centre, one outside
StoreCursors == {Point(360, 300), Point(510, 450)}

Next ==
    \/ \E c \in StoreCursors, b \in Buttons : Step(MouseDown(c, b))
    \/ Step(MouseUp)
    \/ \E t \in Tools : Step(AddWidget(t))
    \/ \E id \in LayerIds : Step(ToggleVisibility(id))
    \/ \E id \in LayerIds : Step(DeleteItem(id))
    \/ \E id \in LayerIds : Step(LayerSelect(id))
    \/ Step(ClearBoard)
    \/ \E f \in BOOLEAN : Step(CanvasPaste(f, 1))
    \/ Step(PasteImgOnload)
    \/ Step(Render)

Spec == Init /\ [][Next]_vars

SelectedCount == Cardinality({k \in 1..Len(items) : Get(items[k], "selected", FALSE)})

\* C1: in every reachable state at most one item of the store has selected = true
AtMostOneSelected == SelectedCount <= 1

TypeCount(t) == Cardinality({k \in 1..Len(items) : items[k].type = t})

\* the store holds at most one ruler, protractor, triangle and compass
SingletonPerType == \A t \in Singletons : TypeCount(t) <= 1

\* a tool invoked while its widget exists keeps the number of items and flips
\* the visible flag of that widget and of no other
ToolTogglesExisting ==
    \A t \in Singletons :
        (last'.op = "addWidget" /\ TypeCount(t) > 0 /\ AddWidget(t)) =>
            /\ Len(items') = Len(items)
            /\ \A k \in 1..Len(items) :
                  IsHidden(items'[k]) =
                      (IF items[k].type = t THEN ~IsHidden(items[k]) ELSE IsHidden(items[k]))

\* C2: the store holds at most one widget of each instrument type, and invoking
\* an instrument tool whose widget exists (visible or hidden) leaves the number
\* of items unchanged and flips the visible flag of that widget only
SingletonInstruments == []SingletonPerType /\ [][ToolTogglesExisting]_vars

\* an instrument tool has just hidden its existing widget
ToolHidExisting ==
    /\ last.op = "addWidget"
    /\ last.branch = "toggle"
    /\ Len(items) >= 2
    /\ \E k \in 1..Len(items) : items[k].type \in Singletons /\ IsHidden(items[k])

\* a pointer-down selects, and starts a drag on, visible widgets only
DownSkipsHidden ==
    \A c \in StoreCursors, b \in Buttons :
        (last'.op = "mouseDown" /\ MouseDown(c, b)) =>
            /\ (/\ selectedItemId' # 0
                /\ \/ selectedItemId' # selectedItemId
                   \/ dragType' # dragType /\ dragType' # "null")
                  => \E k \in 1..Len(items) :
                        items[k].id = selectedItemId' /\ ~IsHidden(items[k])
            /\ \A k \in 1..Len(items) :
                  (Get(items'[k], "selected", FALSE) /\ ~Get(items[k], "selected", FALSE))
                     => ~IsHidden(items[k])

\* hiding a widget keeps every item of the store at its place
HidingKeepsItems ==
    (\/ /\ last'.op = "other"
           /\ UNCHANGED <<mode, selectedItemId, nextId, isDragging, decoding>>
           /\ \E id \in LayerIds : ToggleVisibility(id)
        \/ /\ last'.op = "addWidget"
           /\ \E t \in Tools : AddWidget(t)) =>
        \A k \in 1..Len(items) : Len(items') >= k /\ items'[k].id = items[k].id

\* C8: a pointer-down never selects a hidden widget and never starts a move,
\* rotate or compass-arc drag on one, even when it is the topmost widget within
\* 100 units of the cursor; hiding a widget by its tool or by the layer panel
\* never removes it from the store
HiddenWidgetsExcluded == [][DownSkipsHidden /\ HidingKeepsItems]_vars

\* a pointer-down has just landed within 100 units of a hidden widget that is
\* the topmost widget there, and selected the visible widget under it
DownOverHidden ==
    /\ last.op = "mouseDown"
    /\ last.branch = "hit"
    /\ \E k \in 1..Len(items) :
          /\ IsWidget(items[k])
          /\ IsHidden(items[k])
          /\ HypotLess(lastPos.x - items[k].x, lastPos.y - items[k].y, HitRadius)
          /\ \A j \in (k + 1)..Len(items) : ~IsWidget(items[j])
          /\ \E j \in 1..(k - 1) : items[j].id = selectedItemId /\ items[j].selected

\* Clear Board leaves the store empty
ClearEmpties == (last'.op = "clearBoard" /\ ClearBoard) => items' = <<>>

\* an instrument tool invoked on a store without a widget of its type appends a
\* new visible widget of the type
ToolCreatesFresh ==
    \A t \in Singletons :
        (last'.op = "addWidget" /\ TypeCount(t) = 0 /\ AddWidget(t)) =>
            /\ Len(items') = Len(items) + 1
            /\ items'[Len(items')] = NewWidget(nextId, t)
            /\ items'[Len(items')].id \notin {items[k].id : k \in 1..Len(items)}
            /\ ~IsHidden(items'[Len(items')])

\* C13: Clear Board leaves the store empty whatever it held (strokes, visible
\* widgets, hidden singleton widgets), so that an instrument tool invoked next
\* creates a new visible widget and toggles no hidden one
ClearBoardEmpties == [][ClearEmpties /\ ToolCreatesFresh]_vars

\* Clear Board has just emptied a store that held a hidden widget
ClearedHidden ==
    /\ last.op = "clearBoard"
    /\ last.branch = "hidden"
    /\ items = <<>>
    /\ nextId > 1

-----------------------------------------------------------------------------
(* SpecDraw: strokes.  The pen, the eraser and the compass arc on a board    *)
(* with the compass, pointer-up by mouse-up and by mouse-leave, the mode     *)
(* buttons, and the re-render.                                               *)

\* three cursors 10 units apart, each within HitRadius of the canvas centre
DrawCursors == {Point(360, 300), Point(360, 320)}

\* one pointer with one button down at a time: a press or a click comes after
\* the release (or the leave) of the press before it
OnePointer == ~isDragging

NextDraw ==
    \/ \E c \in DrawCursors, b \in Buttons : OnePointer /\ Step(MouseDown(c, b))
    \/ \E c \in DrawCursors : Step(MouseMove(c))
    \/ Step(MouseUp)
    \/ Step(MouseLeave)
    \/ \E m \in Modes : OnePointer /\ Step(SetMode(m))
    \/ OnePointer /\ Step(AddWidget("compass"))
    \/ Step(Render)

SpecDraw == Init /\ [][NextDraw]_vars

StoreIds == {items[k].id : k \in 1..Len(items)}

\* the stroke of the in-progress slot is no item of the store
SlotNotInStore == currentStroke # Null => currentStroke.id \notin StoreIds

\* a stroke new to the store is the stroke of the slot, whole, put there by a pointer-up
StrokeEntersWhole ==
    \A k \in 1..Len(items') :
        (items'[k].type = "stroke" /\ items'[k].id \notin StoreIds) =>
            /\ MouseUp \/ MouseLeave
            /\ items'[k] = currentStroke

\* C3: while the in-progress slot holds a stroke no item of the store has its
\* id, and a stroke enters the store only through a pointer-up, in one step and
\* with every point it had accumulated
StrokeInSeparateSlot == []SlotNotInStore /\ [][StrokeEntersWhole]_vars

\* C4: after every pointer-up (mouse-up or mouse-leave) the in-progress slot is
\* empty, a stroke that was in progress is the last item of the store, the
\* drag-kind is none and the compass pivot is cleared
PointerUpFinalises ==
    [][(~isDragging' /\ (MouseUp \/ MouseLeave)) =>
          /\ currentStroke' = Null
          /\ dragType' = "null"
          /\ compassPivot' = Null
          /\ currentStroke # Null =>
                (Len(items') > 0 /\ items'[Len(items')].id = currentStroke.id)]_vars

\* a point of the stroke lies at a distance below r of (cx, cy)
NearStroke(item, cx, cy, r) ==
    /\ item.type = "stroke"
    /\ \E n \in 1..Len(item.points) :
          HypotLess(item.points[n].x - cx, item.points[n].y - cy, r)

\* an eraser pointer-move at c removes the strokes NearStroke picks with radius r
\* and keeps every other item as it is, in order
ErasesWithin(r) ==
    \A c \in DrawCursors :
        (last'.op = "mouseMove" /\ MoveBranch = "eraser" /\ MouseMove(c)) =>
            items' = SelectSeq(items, LAMBDA i : ~NearStroke(i, c.x, c.y, r))

\* C7 (as the code has it): an eraser-mode pointer-move at cursor C while a button
\* is held removes every stroke that has a point at a distance strictly below 20
\* of C, and leaves every other item (every widget, visible or hidden, and every
\* other stroke) present, unmodified and in the same order
EraserRemovesNearStrokes == [][ErasesWithin(EraseRadius)]_vars

\* C7 (as stated): within 20 units, a point at distance exactly 20 included
EraserRemovesWithin20 == [][ErasesWithin(EraseRadius + 1)]_vars

\* an eraser pointer-move has just removed a stroke and kept a stroke that has a
\* point exactly 20 units from the cursor
ErasedOneKeptOthers ==
    /\ last.op = "mouseMove"
    /\ last.branch = "eraser"
    /\ \E k \in 1..Len(items) :
          /\ NearStroke(items[k], lastPos.x, lastPos.y, EraseRadius + 1)
          /\ ~NearStroke(items[k], lastPos.x, lastPos.y, EraseRadius)
    /\ \E id \in 1..(nextId - 1) :
          id \notin StoreIds /\ (currentStroke # Null => currentStroke.id # id)

\* C28: a pointer-move that arrives while no button is held (before any
\* pointer-down, after a pointer-up or a mouse-leave) leaves the store, the
\* in-progress stroke, the selection and the drag-kind as they are, in every
\* tool mode, the eraser included
IdleMoveChangesNothing ==
    [][\A c \in DrawCursors :
          (last'.op = "mouseMove" /\ ~isDragging /\ MouseMove(c)) =>
              UNCHANGED <<items, currentStroke, selectedItemId, dragType>>]_vars

\* a pointer-move has just arrived with no button held, in eraser mode, every
\* cursor being within EraseRadius of a point of a stroke of the store
IdleMoveOverStroke ==
    /\ last.op = "mouseMove"
    /\ last.branch = "idle"
    /\ ~isDragging
    /\ mode = "eraser"
    /\ \A c \in DrawCursors :
          \E k \in 1..Len(items) :
             /\ items[k].type = "stroke"
             /\ \E n \in 1..Len(items[k].points) :
                   HypotLess(items[k].points[n].x - c.x, items[k].points[n].y - c.y, EraseRadius)

-----------------------------------------------------------------------------
(* SpecCompass: the compass arc.  The compass tool, pointer-down with either *)
(* button, pointer-moves along the axes through the needle tip, pointer-up   *)
(* by mouse-up and by mouse-leave, and the re-render.                        *)

\* cursors at 150 units of the needle tip (360, 450), on three of its axes
CompassCursors == {Point(360, 300), Point(510, 450), Point(360, 600)}

NextCompass ==
    \/ Step(AddWidget("compass"))
    \/ \E c \in CompassCursors, b \in Buttons : Step(MouseDown(c, b))
    \/ \E c \in CompassCursors : Step(MouseMove(c))
    \/ Step(MouseUp)
    \/ Step(MouseLeave)
    \/ Step(Render)

SpecCompass == Init /\ [][NextCompass]_vars

\* the last event was the pointer-down or a pointer-move sample of a compass arc
ArcSample == last.op \in {"mouseDown", "mouseMove"} /\ last.branch = "compass_arc"

\* C5: during a right-button drag on the compass, after the pointer-down and
\* after every pointer-move sample, the needle tip getCompassPoints computes
\* from the stored compass widget is the pivot locked at pointer-down
NeedleStaysOnPivot ==
    ArcSample =>
        \E k \in 1..Len(items) :
            /\ items[k].id = selectedItemId
            /\ items[k].type = "compass"
            /\ getCompassPoints(items[k]).needle = compassPivot

\* a pointer-move sample of a compass arc has turned the compass
ArcTurnedCompass ==
    /\ ArcSample
    /\ last.op = "mouseMove"
    /\ \E k \in 1..Len(items) :
          items[k].id = selectedItemId /\ items[k].type = "compass" /\ items[k].angle # 0

\* the square of the distance of p and q
Dist2(p, q) == (p.x - q.x) * (p.x - q.x) + (p.y - q.y) * (p.y - q.y)

\* C6: every point of the stroke a compass arc traces (the pencil tip at
\* pointer-down and each point a pointer-move appends) lies at distance exactly
\* 2 x spread = 80 of the locked needle tip
ArcPointsEquidistant ==
    (dragType = "compass_arc" /\ compassPivot # Null /\ currentStroke # Null) =>
        \A n \in 1..Len(currentStroke.points) :
            Dist2(currentStroke.points[n], compassPivot) = (2 * CompassSpread) * (2 * CompassSpread)

\* a compass arc has traced two different points
ArcTracedTwoPoints ==
    /\ ArcSample
    /\ dragType = "compass_arc"
    /\ compassPivot # Null
    /\ currentStroke # Null
    /\ Len(currentStroke.points) >= 2
    /\ currentStroke.points[1] # currentStroke.points[2]

-----------------------------------------------------------------------------
(* SpecSnap: getSnapPoint on its own.  The board is drawn from the boards of *)
(* at most MaxBoard widgets and strokes the tools, the layer panel, the      *)
(* drags and the pen produce; the action applies getSnapPoint to a cursor.   *)

\* the items of the boards, with the id of their place
SnapItems(id) ==
    LET ruler == NewWidget(id, "ruler")
        triangle == NewWidget(id, "triangle")
    IN  {ruler,
         Spread(ruler, "visible", FALSE),
         Spread(ruler, "angle", 90),
         Spread(ruler, "y", CanvasCy + 40),
         triangle,
         Spread(triangle, "visible", FALSE),
         Spread(triangle, "angle", 90),
         NewWidget(id, "compass"),
         NewWidget(id, "protractor"),
         Spread(NewWidget(id, "text"), "visible", FALSE),
         NewImage(id, "paste"),
         [id |-> id, type |-> "stroke", points |-> <<Point(360, 275), Point(450, 300)>>,
          color |-> "#000000", width |-> 4, strokeStyle |-> "solid"]}

\* at most one ruler, protractor, triangle and compass
SingletonBoard(b) ==
    \A j, k \in 1..Len(b) : (j # k /\ b[j].type \in Singletons) => b[j].type # b[k].type

SnapBoards ==
    UNION {{b \in [1..n -> UNION {SnapItems(id) : id \in 1..n}] :
               (\A k \in 1..n : b[k].id = k) /\ SingletonBoard(b)} : n \in 0..MaxBoard}

SnapCursors ==
    {Point(360, 275), Point(200, 275), Point(600, 275), Point(100, 275),
     Point(360, 290), Point(360, 300), Point(360, 320), Point(360, 200),
     Point(360, 255), Point(450, 305), Point(405, 400), Point(380, 300),
     Point(450, 315), Point(450, 340), Point(450, 325)}

InitSnap ==
    /\ Mounted
    /\ items \in SnapBoards
    /\ nextId = Len(items) + 1
    /\ view = Snapshot

NextSnap == \E c \in SnapCursors : Probe(c)

SpecSnap == InitSnap /\ [][NextSnap]_vars

\* the visible rulers and triangles of a list, in order
VisibleEdges(its) ==
    SelectSeq(its, LAMBDA i : i.type \in {"ruler", "triangle"} /\ Get(i, "visible", TRUE) # FALSE)

\* C9: the result of getSnapPoint depends only on the visible ruler and triangle
\* widgets: removing every hidden widget, every protractor, compass, image and
\* text widget and every stroke from the list gives the same result
SnapReadsVisibleEdgesOnly ==
    probe # Null => snapResult = getSnapPoint(probe.x, probe.y, VisibleEdges(items))

\* getSnapPoint has been applied to a list that holds a hidden ruler first, within
\* the threshold of the cursor, and has returned the point of a visible widget
SnapSkippedHiddenRuler ==
    /\ probe # Null
    /\ snapResult # Null
    /\ Len(items) >= 2
    /\ items[1].type = "ruler"
    /\ IsHidden(items[1])
    /\ SnapOnWidget(probe.x, probe.y, items[1], SnapThreshold) # Null
    /\ SnapOnWidget(probe.x, probe.y, items[1], SnapThreshold) # snapResult

\* the list holds one visible ruler, unrotated, and no visible triangle
OneUnrotatedRuler ==
    LET e == VisibleEdges(items)
    IN  Len(e) = 1 /\ e[1].type = "ruler" /\ e[1].angle = 0

TheRuler == VisibleEdges(items)[1]

\* the cursor is on the top edge of the ruler, within its X span
OnTopEdge(c, r) == 2 * (c.y - r.y) = -r.height /\ 2 * Abs(c.x - r.x) <= r.width

\* the cursor is farther than the threshold from the top and from the bottom edge
FarFromEdges(c, r) ==
    /\ Abs(2 * (c.y - r.y) + r.height) > 2 * SnapThreshold
    /\ Abs(2 * (c.y - r.y) - r.height) > 2 * SnapThreshold

\* C10: with one visible unrotated ruler, a cursor exactly on the ruler's top
\* edge within its X span makes getSnapPoint return that same point, and a cursor
\* farther than the threshold from both the top and the bottom edge makes it
\* return null
RulerEdgeSnap ==
    (probe # Null /\ OneUnrotatedRuler) =>
        /\ OnTopEdge(probe, TheRuler) => snapResult = probe
        /\ FarFromEdges(probe, TheRuler) => snapResult = Null

\* getSnapPoint has returned the cursor it was given, on the top edge of the one ruler
SnappedOnTopEdge ==
    /\ probe # Null
    /\ OneUnrotatedRuler
    /\ Len(items) >= 2
    /\ OnTopEdge(probe, TheRuler)
    /\ snapResult = probe

\* the visible rulers and triangles of the store that yield a snap point for c
Yielding(c) ==
    {k \in 1..Len(items) :
        /\ items[k].type \in {"ruler", "triangle"}
        /\ ~IsHidden(items[k])
        /\ SnapOnWidget(c.x, c.y, items[k], SnapThreshold) # Null}

FirstYielding(c) == CHOOSE k \in Yielding(c) : \A j \in Yielding(c) : k <= j

\* C26: when several visible rulers or triangles yield a snap point for the
\* cursor, getSnapPoint returns the snap point of the first of them in the
\* order of the store, a nearer edge of a later one notwithstanding; it
\* returns null exactly when no visible ruler or triangle yields a snap point
FirstSnapWins ==
    probe # Null =>
        /\ (snapResult = Null) = (Yielding(probe) = {})
        /\ Yielding(probe) # {} =>
               snapResult = SnapOnWidget(probe.x, probe.y, items[FirstYielding(probe)], SnapThreshold)

\* two widgets yield different snap points, the later one the nearer, and the
\* point of the earlier one has been returned
SnappedToFartherFirst ==
    /\ probe # Null
    /\ snapResult # Null
    /\ \E j, k \in Yielding(probe) :
          LET pj == SnapOnWidget(probe.x, probe.y, items[j], SnapThreshold)
              pk == SnapOnWidget(probe.x, probe.y, items[k], SnapThreshold)
          IN  /\ j < k
              /\ snapResult = pj
              /\ Dist2(probe, pk) < Dist2(probe, pj)

\* the snap point is the one a triangle has yielded
FromTriangle ==
    /\ probe # Null
    /\ Yielding(probe) # {}
    /\ items[FirstYielding(probe)].type = "triangle"

TheTriangle == items[FirstYielding(probe)]

\* the snap point in the frame of the triangle
LocalSnap == worldToLocal(snapResult.x, snapResult.y, TheTriangle.x, TheTriangle.y, TheTriangle.angle)

\* p is on a leg of the triangle t, or within m of its ends on the line of the leg
OnLegs(p, t, m) ==
    \/ p.y = 0 /\ p.x >= 0 - m /\ p.x <= t.width + m
    \/ p.x = 0 /\ p.y >= 0 - m /\ p.y <= t.height + m

-----------------------------------------------------------------------------
(* SpecPen: the pen on a board with the ruler.  The ruler and triangle       *)
(* tools, the layer panel, the Select and Pen buttons, the snap switch,      *)
(* left-button pointer-down while the store holds no stroke, pointer-move    *)
(* and pointer-up.                                                           *)

\* 5 above the top-left corner of the ruler, 15 above its top edge, and 25
\* above it within HitRadius of its centre
PenCursors == {Point(200, 270), Point(300, 260), Point(360, 250)}

\* the store holds no stroke: the pen of SpecPen draws one stroke
StrokeFree == \A k \in 1..Len(items) : items[k].type # "stroke"

NextPen ==
    \/ \E t \in {"ruler", "triangle"} : OnePointer /\ Step(AddWidget(t))
    \/ \E id \in LayerIds : OnePointer /\ Step(ToggleVisibility(id))
    \/ \E m \in {"select", "pen"} : OnePointer /\ Step(SetMode(m))
    \/ OnePointer /\ Step(ToggleSnap)
    \/ \E c \in PenCursors : OnePointer /\ StrokeFree /\ Step(Press(c, 0))
    \/ \E c \in PenCursors : Step(MouseMove(c))
    \/ Step(MouseUp)
    \/ Step(Render)

SpecPen == Init /\ [][NextPen]_vars

\* the visible rulers and triangles of the store are one unrotated ruler
RulerAlone ==
    LET e == VisibleEdges(items)
    IN  Len(e) = 1 /\ e[1].type = "ruler" /\ e[1].angle = 0

\* X within the span of the ruler, and a distance to its top edge below the threshold
NearTopEdge(c, r) ==
    /\ 2 * Abs(c.x - r.x) <= r.width
    /\ Abs(2 * (c.y - r.y) + r.height) < 2 * SnapThreshold

\* the point of the top edge of the ruler that has the X of the cursor
OnTop(c, r) == Point(c.x, r.y - r.height \div 2)

\* C11: with snapping on and one visible unrotated ruler, a pen pointer-down and
\* a pen pointer-move at a cursor whose X is in the ruler's span and whose
\* distance to the top edge is below the threshold put the point (same X,
\* cy - h/2) in the stroke; so for the cursor 5 above the top-left corner
PenSnapsToTopEdge ==
    [][\A c \in PenCursors :
          (RulerAlone /\ view.snap /\ NearTopEdge(c, VisibleEdges(items)[1])) =>
              /\ (last'.op = "mouseDown" /\ view.mode = "pen" /\ Press(c, 0)) =>
                    /\ currentStroke'.points = <<OnTop(c, VisibleEdges(items)[1])>>
                    /\ lastPos' = OnTop(c, VisibleEdges(items)[1])
              /\ (last'.op = "mouseMove" /\ MoveBranch = "pen" /\ MouseMove(c)) =>
                    /\ lastPos' = OnTop(c, VisibleEdges(items)[1])
                    /\ currentStroke # Null =>
                          currentStroke'.points =
                              Append(currentStroke.points, OnTop(c, VisibleEdges(items)[1]))]_vars

\* a pen stroke begun 5 above the top-left corner of the ruler and carried on 15
\* above its top edge holds the two points of the edge
PenStrokeOnTopEdge ==
    /\ last.op = "mouseMove"
    /\ last.branch = "pen"
    /\ RulerAlone
    /\ currentStroke # Null
    /\ currentStroke.points = <<Point(200, 275), Point(300, 275)>>

\* the point the pen puts down for the cursor c: the snap point when snapping
\* is enabled and there is one, the cursor otherwise
PenPoint(c) ==
    IF snap /\ getSnapPoint(c.x, c.y, items) # Null
    THEN getSnapPoint(c.x, c.y, items)
    ELSE c

\* the left button is held since a press in pen mode
PenDrag == isDragging /\ mode = "pen" /\ currentStroke # Null

-----------------------------------------------------------------------------
(* SpecSelect: selection and the wheel.  The ruler and compass tools, the    *)
(* layer panel, the mode buttons, pointer-down with either button,          *)
(* pointer-up, wheel ticks, and the re-render.                               *)

\* one cursor within HitRadius of the canvas centre, one outside
SelectCursors == {Point(360, 300), Point(510, 450)}

\* e.deltaY of a wheel tick
WheelDeltas == {-100, 100}

NextSelect ==
    \/ \E t \in {"ruler", "compass"} : OnePointer /\ Step(AddWidget(t))
    \/ \E id \in LayerIds : OnePointer /\ Step(ToggleVisibility(id))
    \/ \E m \in Modes : OnePointer /\ Step(SetMode(m))
    \/ \E c \in SelectCursors, b \in Buttons : OnePointer /\ Step(MouseDown(c, b))
    \/ Step(MouseUp)
    \/ \E d \in WheelDeltas : Step(Wheel(d))
    \/ Step(Render)

SpecSelect == Init /\ [][NextSelect]_vars

\* the item after a wheel tick of e.deltaY = d, were every widget with
\* selected = true turned and nothing else changed
Turned(item, d) ==
    IF IsWidget(item) /\ Get(item, "selected", FALSE)
    THEN Spread(item, "angle", item.angle + (IF d > 0 THEN WheelStep ELSE -WheelStep))
    ELSE item

\* C12: a wheel tick with non-zero deltaY changes the angle of the widget that
\* has selected = true by +5 or -5, whatever the drag-kind, and changes nothing
\* else; without a selected widget it leaves the store as it is
WheelTurnsSelected ==
    [][\A d \in WheelDeltas :
          (last'.op = "wheel" /\ Wheel(d)) =>
              items' = [k \in 1..Len(items) |-> Turned(items[k], d)]]_vars

\* the places in the store of the visible widgets whose pivot is at a distance
\* below HitRadius of c
NearWidgets(c) ==
    {k \in 1..Len(items) :
        /\ IsWidget(items[k])
        /\ ~IsHidden(items[k])
        /\ HypotLess(c.x - items[k].x, c.y - items[k].y, HitRadius)}

Topmost(c) == CHOOSE k \in NearWidgets(c) : \A j \in NearWidgets(c) : j <= k

\* C20: a pointer-down selects the last item in store order among the visible
\* widgets whose pivot is at a distance strictly below 100 of the cursor and
\* sets selected = false on every other item; it never selects a stroke,
\* however close the points of the stroke are to the cursor
DownSelectsTopmost ==
    [][\A c \in SelectCursors, b \in Buttons :
          (last'.op = "mouseDown" /\ MouseDown(c, b)) =>
              /\ NearWidgets(c) # {} =>
                    /\ selectedItemId' = items[Topmost(c)].id
                    /\ Len(items') = Len(items)
                    /\ \A k \in 1..Len(items) : items'[k].selected = (k = Topmost(c))
              /\ \A k \in 1..Len(items') :
                    items'[k].type = "stroke" =>
                        /\ ~Get(items'[k], "selected", FALSE)
                        /\ selectedItemId' # items'[k].id]_vars

\* a pointer-down within 100 units of two visible widgets has selected the later
\* widget of the store and deselected the earlier one
DownChoseTopmost ==
    /\ last.op = "mouseDown"
    /\ last.branch = "hit"
    /\ \E j, k \in 1..Len(items) :
          /\ j < k
          /\ k = Topmost(lastPos)
          /\ j \in NearWidgets(lastPos)
          /\ items[k].id = selectedItemId
          /\ items[k].selected
          /\ ~items[j].selected

\* C21: a pointer-down that hits no visible widget clears the selection in
\* select mode (no item has selected = true, the selected id is null) and
\* leaves the selected flag of every item as it is in every other mode
MissClearsSelection ==
    [][\A c \in SelectCursors, b \in Buttons :
          (last'.op = "mouseDown" /\ MouseDown(c, b) /\ NearWidgets(c) = {}) =>
              IF mode = "select"
              THEN /\ \A k \in 1..Len(items') : ~Get(items'[k], "selected", FALSE)
                   /\ selectedItemId' = 0
              ELSE /\ Len(items') = Len(items)
                   /\ \A k \in 1..Len(items) :
                         Get(items'[k], "selected", FALSE) = Get(items[k], "selected", FALSE)]_vars

\* a pointer-down off the widgets has just been handled in select mode, on a
\* store with a visible widget, and nothing is selected
MissedInSelectMode ==
    /\ last.op = "mouseDown"
    /\ last.branch = "miss"
    /\ mode = "select"
    /\ selectedItemId = 0
    /\ \E k \in 1..Len(items) : IsWidget(items[k]) /\ ~IsHidden(items[k])
    /\ \A k \in 1..Len(items) : ~Get(items[k], "selected", FALSE)

\* C22: in every tool mode, after a right-button pointer-down that hits a
\* visible widget the drag-kind is compass_arc when the widget is the compass,
\* the pivot being the needle tip and the in-progress stroke holding the
\* pencil tip alone, and rotate when the widget is of any other type
RightDownStartsDrag ==
    [][\A c \in SelectCursors :
          (last'.op = "mouseDown" /\ MouseDown(c, 2) /\ NearWidgets(c) # {}) =>
              LET w == items[Topmost(c)]
              IN  IF w.type = "compass"
                  THEN /\ dragType' = "compass_arc"
                       /\ compassPivot' = getCompassPoints(w).needle
                       /\ currentStroke' # Null
                       /\ currentStroke'.points = <<getCompassPoints(w).pencil>>
                  ELSE dragType' = "rotate"]_vars

\* the same, in select and pen mode
RightDownStartsDragOffEraser ==
    [][\A c \in SelectCursors :
          (last'.op = "mouseDown" /\ MouseDown(c, 2) /\ NearWidgets(c) # {}
              /\ mode # "eraser") =>
              LET w == items[Topmost(c)]
              IN  IF w.type = "compass"
                  THEN /\ dragType' = "compass_arc"
                       /\ compassPivot' = getCompassPoints(w).needle
                       /\ currentStroke' # Null
                       /\ currentStroke'.points = <<getCompassPoints(w).pencil>>
                  ELSE dragType' = "rotate"]_vars

-----------------------------------------------------------------------------
(* SpecTrip: the two rotations of CanvasUtils on their own.  A local point,  *)
(* a pivot and an angle that is a multiple of 90 degrees are drawn, and the  *)
(* point is taken to world coordinates and back.                             *)

TripPoints == {Point(20 * i, 20 * j) : i, j \in -MaxLocal..MaxLocal}

TripPivots == {Point(0, 0), Point(CanvasCx, CanvasCy)}

TripAngles == {90 * q : q \in -MaxQuarter..MaxQuarter}

NextTrip == \E p \in TripPoints, pivot \in TripPivots, a \in TripAngles : RoundTrip(p, pivot, a)

SpecTrip == Init /\ [][NextTrip]_vars

\* C14: for every pivot, every angle that is a multiple of 90 degrees and every
\* local point, convertLocalToWorld followed by the world-to-local rotation of
\* getSnapPoint gives the local point back
RoundTripIdentity == trip # Null => trip.back = trip.local

\* a point has made the round trip about the canvas centre by a quarter turn that
\* moved it
TrippedQuarterTurn ==
    /\ trip # Null
    /\ trip.angle = 90
    /\ trip.pivot = Point(CanvasCx, CanvasCy)
    /\ trip.local = Point(20, -40)
    /\ trip.world = Point(CanvasCx + 40, CanvasCy + 20)
    /\ trip.back = trip.local

-----------------------------------------------------------------------------
(* SpecAI: the AI panel and the diagram modal.  Paste to AI, the Solve and   *)
(* Generate requests and their completions, the result modal, a pointer-down *)
(* and a wheel tick on the canvas.  A modal lies over the page: while one is *)
(* open the events of the page under it do not arrive.                       *)

\* the result modal is rendered, above everything else (904)
ResultOnTop == view.showResultModal /\ view.ocrResult # Null

\* the diagram modal is rendered and nothing lies over it (851)
TikzOnTop == view.tikzModalOpen /\ ~ResultOnTop

\* no modal lies over the page
Unobstructed == ~view.tikzModalOpen /\ ~ResultOnTop

AICursors == {Point(360, 300)}

NextAI ==
    \/ Unobstructed /\ Step(AIPaste(TRUE))
    \/ Step(AIPasteOnload)
    \/ Unobstructed /\ Step(ClearPastedImage)
    \/ Unobstructed /\ Step(Solve)
    \/ Step(SolveResolved)
    \/ Step(SolveRejected)
    \/ Unobstructed /\ Step(SetTikzModalOpen(TRUE))
    \/ TikzOnTop /\ Step(SetTikzModalOpen(FALSE))
    \/ TikzOnTop /\ Step(GenerateTikz)
    \/ Step(TikzCodeResolved)
    \/ Step(TikzCodeRejected)
    \/ \E response \in Responses : Step(TikzCompiled(response))
    \/ Step(TikzImgOnload)
    \/ Unobstructed /\ Step(SetShowResultModal(TRUE))
    \/ ResultOnTop /\ Step(SetShowResultModal(FALSE))
    \/ \E c \in AICursors : Unobstructed /\ Step(MouseDown(c, 0))
    \/ Unobstructed /\ Step(Wheel(100))
    \/ Step(Render)

SpecAI == Init /\ [][NextAI]_vars

\* the awaited calls
Outstanding == request.solve + request.generate + request.compile

\* C15: at most one solve or generate / compile request is outstanding, the busy
\* flag is set while one is, and no step taken while the busy flag is set
\* starts a request
OneRequestAtATime ==
    /\ [](Outstanding <= 1 /\ (Outstanding > 0 => isProcessing))
    /\ [][isProcessing => Outstanding' <= Outstanding]_vars

\* a solve request is outstanding while the diagram modal shows its Generate
\* button, disabled
GenerateDisabledBySolve ==
    /\ request.solve = 1
    /\ isProcessing
    /\ tikzModalOpen
    /\ Rendered

\* a step that handles the failure of a request: the catch of handleSolve or of
\* handleGenerateTikz
RequestFailed ==
    \/ SolveRejected
    \/ TikzCodeRejected
    \/ \E response \in Responses : compileTikz(response).rejected /\ TikzCompiled(response)

\* C16: when a solve or a generate / compile request fails, the store, the
\* staged AI image, the last OCR result and the open / closed state of the
\* result modal and of the diagram modal are what they were immediately before
\* the request was issued, and the busy flag is false
FailureRestoresState ==
    [][RequestFailed => (PreRequest' = issued /\ ~isProcessing')]_vars

\* C16 (as the code has it): the failure of a request changes none of the five,
\* which keep what the user has done to them since the request was issued, and
\* clears the busy flag
FailureChangesNothing ==
    [][RequestFailed => (PreRequest' = PreRequest /\ ~isProcessing')]_vars

\* a generate / compile request has just failed with the diagram modal open
FailedWithModalOpen ==
    /\ last.op = "request"
    /\ last.branch = "rejected"
    /\ tikzModalOpen
    /\ ~isProcessing
    /\ Outstanding = 0

\* C17: whenever the HTTP status of the compile service is not ok or the body
\* of its response reports ok = false, with or without a log, compileTikz
\* rejects, and handleGenerateTikz injects no image widget and leaves the
\* diagram modal as it is
CompileFailureRejects ==
    [][\A response \in Responses :
          (TikzCompiled(response) /\ (~response.httpOk \/ ~response.ok)) =>
              /\ compileTikz(response).rejected
              /\ items' = items
              /\ decoding' = decoding
              /\ tikzModalOpen' = tikzModalOpen]_vars

\* as the code has it: compileTikz rejects when the HTTP status is not ok and
\* when the body reports ok = false with a log
CompileRejectsWithLog ==
    [][\A response \in Responses :
          (TikzCompiled(response) /\ (~response.httpOk \/ (~response.ok /\ response.log # ""))) =>
              /\ compileTikz(response).rejected
              /\ items' = items
              /\ decoding' = decoding
              /\ tikzModalOpen' = tikzModalOpen]_vars

\* a step that completes a request: the continuation of handleSolve or of
\* handleGenerateTikz after an await
RequestCompleted ==
    \/ SolveResolved
    \/ SolveRejected
    \/ TikzCodeResolved
    \/ TikzCodeRejected
    \/ \E response \in Responses : TikzCompiled(response)

\* C19: the completion of a solve or of a diagram request, in any interleaving
\* with pointer and wheel events, leaves every item of the store as it is and
\* where it is: a solve changes no item, and the image of a diagram is appended
\* at the end of the store
RequestsKeepItems ==
    [][/\ RequestCompleted => items' = items
       /\ TikzImgOnload =>
             /\ Len(items') = Len(items) + 1
             /\ SubSeq(items', 1, Len(items)) = items
             /\ items'[Len(items')].type = "image"]_vars

\* the image of a diagram has just been appended after an image the wheel had turned
DiagramAppendedAfterWheel ==
    /\ last.op = "imgOnload"
    /\ last.branch = "tikz"
    /\ Len(items) = 2
    /\ items[1].angle # 0
    /\ items[2].type = "image"
    /\ items[2].angle = 0

-----------------------------------------------------------------------------
(* SpecPaste: the two paste entry points.  Ctrl+V with the focus in and out  *)
(* of an input, Paste to AI with and without an image in the clipboard, the  *)
(* callbacks of both, the trash button of the staged image, the ruler tool,  *)
(* the mode buttons, wheel ticks, and the re-render.                         *)

NextPaste ==
    \/ \E f \in BOOLEAN : Step(CanvasPaste(f, 1))
    \/ Step(PasteImgOnload)
    \/ \E h \in BOOLEAN : Step(AIPaste(h))
    \/ Step(AIPasteOnload)
    \/ Step(ClearPastedImage)
    \/ Step(AddWidget("ruler"))
    \/ \E m \in Modes : Step(SetMode(m))
    \/ \E d \in WheelDeltas : Step(Wheel(d))
    \/ Step(Render)

SpecPaste == Init /\ [][NextPaste]_vars

\* a canvas paste and its img.onload leave the staged AI image alone; the paste
\* changes no item, and the img.onload of each pasted image appends one image widget
CanvasPasteToBoard ==
    /\ \A f \in BOOLEAN :
          CanvasPaste(f, 1) =>
              /\ pastedImage' = pastedImage
              /\ reading' = reading
              /\ items' = items
              /\ decoding'.paste = decoding.paste + (IF f THEN 0 ELSE 1)
    /\ PasteImgOnload =>
          /\ pastedImage' = pastedImage
          /\ reading' = reading
          /\ decoding'.paste = decoding.paste - 1
          /\ Len(items') = Len(items) + 1
          /\ SubSeq(items', 1, Len(items)) = items
          /\ items'[Len(items')].type = "image"

\* Paste to AI and its reader.onload leave the store and the images on their way
\* to it alone; the reader.onload stages the image
AIPasteToPanel ==
    /\ \A h \in BOOLEAN :
          AIPaste(h) =>
              /\ items' = items
              /\ decoding' = decoding
              /\ pastedImage' = pastedImage
              /\ reading' = reading + (IF h THEN 1 ELSE 0)
    /\ AIPasteOnload =>
          /\ items' = items
          /\ decoding' = decoding
          /\ reading' = reading - 1
          /\ pastedImage' = DataUrl

\* C18: a canvas paste of an image, the focus outside an input or textarea,
\* appends one image widget to the store and leaves the staged AI image as it
\* is; the paste action of the AI panel sets the staged AI image and leaves
\* the store as it is
PasteTargetsDisjoint == [][CanvasPasteToBoard /\ AIPasteToPanel]_vars

\* an image has been pasted on the board and another staged in the AI panel
PastedBothWays ==
    /\ pastedImage = DataUrl
    /\ reading = 0
    /\ decoding.paste = 0
    /\ Len(items) = 1
    /\ items[1].type = "image"
    /\ items[1].src = "paste"

-----------------------------------------------------------------------------
(* SpecDrag: move and rotate drags.  The ruler and triangle tools, the       *)
(* Select and Eraser buttons, a press of either button, pointer-moves, the   *)
(* release, and the re-render.  A move drag carries a widget up to MaxDrag.  *)

\* two cursors within HitRadius of the canvas centre, 10 apart on both axes
DragCursors == {Point(360, 300), Point(370, 310)}

NextDrag ==
    \/ \E t \in {"ruler", "triangle"} : OnePointer /\ StepDrag(AddWidget(t))
    \/ \E m \in {"select", "eraser"} : OnePointer /\ StepDrag(SetMode(m))
    \/ \E c \in DragCursors, b \in Buttons : OnePointer /\ StepDrag(Press(c, b))
    \/ \E c \in DragCursors : StepDrag(MouseMove(c))
    \/ StepDrag(MouseUp)
    \/ StepDrag(Render)

SpecDrag == Init /\ [][NextDrag]_vars

\* the place in the store of the widget the button is held on
Grabbed == CHOOSE k \in 1..Len(items) : items[k].id = grab.id

\* a pointer-move leaves every item but the grabbed one as it is
OthersKept ==
    /\ Len(items') = Len(items)
    /\ \A k \in 1..Len(items) : k # Grabbed => items'[k] = items[k]

\* the left button is held since a press on a visible widget in select mode
LeftSelectDrag ==
    /\ isDragging
    /\ grab # Null
    /\ grab.button = 0
    /\ grab.mode = "select"

\* C24: during a left-button drag that starts in select mode on a visible
\* widget, after every pointer-move sample the widget is where it was at the
\* pointer-down plus (cursor - cursor of the pointer-down), snapping on or off,
\* and its angle and every other item are unchanged
LeftDragFollowsCursor ==
    [][\A c \in DragCursors :
          (last'.op = "mouseMove" /\ LeftSelectDrag /\ MouseMove(c)) =>
              /\ OthersKept
              /\ items'[Grabbed].id = grab.id
              /\ items'[Grabbed].x = grab.x + (c.x - grab.cursor.x)
              /\ items'[Grabbed].y = grab.y + (c.y - grab.cursor.y)
              /\ items'[Grabbed].angle = grab.angle
              /\ items'[Grabbed].angle = items[Grabbed].angle]_vars

\* a move drag has carried the ruler off the canvas centre, there and back to
\* the first cursor, with snapping on
DraggedAway ==
    /\ last.op = "mouseMove"
    /\ last.branch = "move"
    /\ snap
    /\ grab # Null
    /\ grab.type = "ruler"
    /\ lastPos # grab.cursor
    /\ \E k \in 1..Len(items) :
          /\ items[k].id = grab.id
          /\ items[k].x = CanvasCx + MaxDrag
          /\ items[k].y = CanvasCy + MaxDrag

\* the right button is held since a press on a visible widget, not the compass
RightDrag ==
    /\ isDragging
    /\ grab # Null
    /\ grab.button = 2
    /\ grab.type # "compass"

\* C25: during a right-button drag on a visible widget that is not the
\* compass, after every pointer-move sample the angle of the widget is its
\* angle at the pointer-down plus 0.5 * (cursor y - cursor y of the
\* pointer-down), whatever the horizontal motion, and its x and y and every
\* other item are unchanged
RightDragTurns ==
    [][\A c \in DragCursors :
          (last'.op = "mouseMove" /\ RightDrag /\ MouseMove(c)) =>
              /\ OthersKept
              /\ items'[Grabbed].id = grab.id
              /\ 2 * (items'[Grabbed].angle - grab.angle) = c.y - grab.cursor.y
              /\ items'[Grabbed].x = grab.x
              /\ items'[Grabbed].y = grab.y]_vars

\* the same, in select and pen mode
RightDragTurnsOffEraser ==
    [][\A c \in DragCursors :
          (last'.op = "mouseMove" /\ RightDrag /\ grab.mode # "eraser" /\ MouseMove(c)) =>
              /\ OthersKept
              /\ items'[Grabbed].id = grab.id
              /\ 2 * (items'[Grabbed].angle - grab.angle) = c.y - grab.cursor.y
              /\ items'[Grabbed].x = grab.x
              /\ items'[Grabbed].y = grab.y]_vars

-----------------------------------------------------------------------------
(* SpecLife: the life of a widget.  Every event that updates the store but   *)
(* the pen: the ruler tool, the layer panel, Clear Board, the Select and     *)
(* Eraser buttons, a left-button press, pointer-moves, the release, a wheel  *)
(* tick, the canvas paste, the diagram request, and the re-render.  The page *)
(* receives no event while the diagram modal lies over it.                   *)

\* a cursor within HitRadius of the canvas centre
LifeCursors == {Point(360, 300)}

NextLife ==
    \/ Unobstructed /\ OnePointer /\ Step(AddWidget("ruler"))
    \/ \E id \in LayerIds : Unobstructed /\ OnePointer /\ Step(ToggleVisibility(id))
    \/ \E id \in LayerIds : Unobstructed /\ OnePointer /\ Step(DeleteItem(id))
    \/ Unobstructed /\ OnePointer /\ Step(ClearBoard)
    \/ \E m \in {"select", "eraser"} : Unobstructed /\ OnePointer /\ Step(SetMode(m))
    \/ \E c \in LifeCursors : Unobstructed /\ OnePointer /\ Step(MouseDown(c, 0))
    \/ \E c \in LifeCursors : Unobstructed /\ Step(MouseMove(c))
    \/ Unobstructed /\ Step(MouseUp)
    \/ Unobstructed /\ OnePointer /\ Step(Wheel(100))
    \/ Unobstructed /\ OnePointer /\ Step(CanvasPaste(FALSE, 1))
    \/ Step(PasteImgOnload)
    \/ Unobstructed /\ OnePointer /\ Step(SetTikzModalOpen(TRUE))
    \/ TikzOnTop /\ Step(GenerateTikz)
    \/ Step(TikzCodeResolved)
    \/ Step(TikzCodeRejected)
    \/ \E response \in Responses : Step(TikzCompiled(response))
    \/ Step(TikzImgOnload)
    \/ Step(Render)

SpecLife == Init /\ [][NextLife]_vars

\* the widgets of the store
WidgetCount == Cardinality({k \in 1..Len(items) : IsWidget(items[k])})

\* C29: a widget leaves the store through the delete action of the layer
\* panel or through Clear Board only: no pointer-down, pointer-move (the
\* eraser included), pointer-up, wheel tick, tool toggle, visibility toggle,
\* paste or completion of a request makes the widgets of the store fewer
WidgetsLeaveByDeleteOnly ==
    [][WidgetCount' < WidgetCount =>
          \/ \E id \in LayerIds : DeleteItem(id)
          \/ ClearBoard]_vars

\* the eraser has just passed over the visible widgets of the store, a ruler
\* and an image, and both are still there
ErasedOverWidgets ==
    /\ last.op = "mouseMove"
    /\ last.branch = "eraser"
    /\ Len(items) = 2
    /\ \A k \in 1..Len(items) :
          /\ IsWidget(items[k])
          /\ ~IsHidden(items[k])
          /\ HypotLess(items[k].x - lastPos.x, items[k].y - lastPos.y, HitRadius)

-----------------------------------------------------------------------------
(* A stored stroke beside the widgets: drags and wheel ticks on a drawn board *)

StrokeCursors == {Point(360, 300), Point(370, 310), Point(510, 450)}

\* the board after a pen stroke from (200, 270) to (300, 260), the Ruler tool
\* and the Compass tool, in that order, on a freshly mounted component
DrawnBoard ==
    /\ mode = "select"
    /\ color = "#000000"
    /\ width = 4
    /\ strokeStyle = "solid"
    /\ currentStroke = Null
    /\ snap = TRUE
    /\ isDragging = FALSE
    /\ dragType = "null"
    /\ lastPos = Point(300, 260)
    /\ selectedItemId = 3
    /\ compassPivot = Null
    /\ isProcessing = FALSE
    /\ tikzModalOpen = FALSE
    /\ request = [solve |-> 0, generate |-> 0, compile |-> 0]
    /\ decoding = [paste |-> 0, tikz |-> 0]
    /\ last = [op |-> "addWidget", branch |-> "new"]
    /\ pastedImage = Null
    /\ ocrResult = Null
    /\ showResultModal = FALSE
    /\ reading = 0
    /\ issued = Null
    /\ grab = Null
    /\ probe = Null
    /\ snapResult = Null
    /\ trip = Null
    /\ items = <<[id |-> 1, type |-> "stroke",
                  points |-> <<Point(200, 270), Point(300, 260)>>,
                  color |-> color, width |-> width, strokeStyle |-> strokeStyle,
                  selected |-> FALSE],
                 Spread(NewWidget(2, "ruler"), "selected", FALSE),
                 NewWidget(3, "compass")>>
    /\ nextId = 4
    /\ view = Snapshot

\* a step on the drawn board: room for the board's two widgets and for the
\* stroke of an arc beside the bounds of an empty board, drags of MaxDrag allowed
StepStroke(A) ==
    A /\ BoundedBy(MaxIds + 2, MaxItems + 2, MaxPoints, MaxDrag)' /\ UNCHANGED <<probe, snapResult, trip>>

NextStroke ==
    \/ \E c \in StrokeCursors, b \in Buttons : OnePointer /\ StepStroke(Press(c, b))
    \/ \E c \in StrokeCursors : StepStroke(MouseMove(c))
    \/ StepStroke(MouseUp)
    \/ \E d \in WheelDeltas : OnePointer /\ StepStroke(Wheel(d))
    \/ StepStroke(Render)

SpecStroke == DrawnBoard /\ [][NextStroke]_vars

\* C30: a stroke of the store has the same points, colour, width and stroke
\* style in the next state, if it is still in the store: no move, rotate,
\* compass arc or wheel tick alters a stored stroke
StoredStrokesImmutable ==
    [][\A j \in 1..Len(items), k \in 1..Len(items') :
          (items[j].type = "stroke" /\ items'[k].id = items[j].id) =>
              /\ items'[k].type = "stroke"
              /\ items'[k].points = items[j].points
              /\ items'[k].color = items[j].color
              /\ items'[k].width = items[j].width
              /\ items'[k].strokeStyle = items[j].strokeStyle]_vars

\* a left drag has just moved the ruler of a store that holds the pen stroke and
\* the stroke of an arc the compass has drawn since
DraggedBesideStroke ==
    /\ last.op = "mouseMove"
    /\ last.branch = "move"
    /\ grab # Null
    /\ grab.type = "ruler"
    /\ Len(items) = 4
    /\ items[1].type = "stroke"
    /\ items[4].type = "stroke"
    /\ items[2].x # grab.x
    /\ items[3].angle # 0

-----------------------------------------------------------------------------
(* The tool buttons and the tool mode *)

NextTools ==
    \/ \E t \in Tools : Step(AddWidget(t))
    \/ \E m \in Modes : Step(SetMode(m))
    \/ \E id \in LayerIds : Step(ToggleVisibility(id))
    \/ \E id \in LayerIds : Step(DeleteItem(id))

SpecTools == Init /\ [][NextTools]_vars

\* the instrument of type t is in the store and shown: its tool will hide it
ToolHides(t) ==
    \E k \in 1..Len(items) :
        /\ items[k].type = t
        /\ ~IsHidden(items[k])
        /\ \A j \in 1..(k - 1) : items[j].type # t

\* C31: after any invocation of an instrument tool, whether it creates, shows
\* or hides the instrument and whatever the mode was, the tool mode is select
ToolLeavesSelect ==
    [][\A t \in Singletons : (last'.op = "addWidget" /\ AddWidget(t)) => mode' = "select"]_vars

\* C31, as the code has it: an instrument tool that creates or shows its
\* instrument leaves the tool mode at select, whatever it was before; one that
\* hides its instrument leaves the tool mode as it was
ToolSelectsUnlessHiding ==
    [][\A t \in Singletons :
          (last'.op = "addWidget" /\ AddWidget(t)) =>
              mode' = IF ToolHides(t) THEN mode ELSE "select"]_vars

\* an instrument tool has just hidden its instrument in pen mode
HidInPenMode ==
    /\ last.op = "addWidget"
    /\ last.branch = "toggle"
    /\ mode = "pen"
    /\ \E k \in 1..Len(items) : items[k].type \in Singletons /\ IsHidden(items[k])

-----------------------------------------------------------------------------
(* The redraw: renderCanvas and drawStroke *)

\* the draw function renderCanvas dispatches an item type to (86-92)
DrawFn(type) ==
    CASE type = "stroke" -> "drawStroke"
      [] type = "ruler" -> "drawRuler"
      [] type = "protractor" -> "drawProtractor"
      [] type = "triangle" -> "drawSetSquare"
      [] type = "compass" -> "drawCompass"
      [] type = "image" -> "drawImageWidget"
      [] type = "text" -> "drawTextWidget"
      [] OTHER -> "none"

\* a forEach body that does not check the visibility
ItemCallAll(item) ==
    IF DrawFn(item.type) = "none" THEN <<>>
    ELSE <<[fn |-> DrawFn(item.type), item |-> item]>>

\* the body of items.forEach (82-93): the draw calls one item gives rise to
ItemCall(item) ==
    IF IsHidden(item) THEN <<>>
    ELSE IF DrawFn(item.type) = "none" THEN <<>>
    ELSE <<[fn |-> DrawFn(item.type), item |-> item]>>

RECURSIVE ForEachCall(_)
\* items.forEach(item => ...) (82): the calls of the items, in the order of the array
ForEachCall(its) ==
    IF its = <<>> THEN <<>> ELSE ItemCall(Head(its)) \o ForEachCall(Tail(its))

\* the draw calls of one renderCanvas, after the clear and the grid (81-98)
renderCanvas(v) ==
    ForEachCall(v.items)
        \o (IF v.currentStroke # Null
            THEN <<[fn |-> "drawStroke", item |-> v.currentStroke]>>
            ELSE <<>>)

\* the quadraticCurveTo calls of drawStroke (31-37) from the point of index n
\* (1-based) on; the end point of each is the mid point, kept doubled
RECURSIVE SmoothCurve(_, _)
SmoothCurve(points, n) ==
    IF n > Len(points) - 1 THEN <<>>
    ELSE <<[op |-> "quadraticCurveTo", control |-> points[n],
            twiceMid |-> Point(points[n].x + points[n + 1].x, points[n].y + points[n + 1].y)]>>
         \o SmoothCurve(points, n + 1)

\* the path commands of drawStroke (4-43)
drawStroke(stroke) ==
    IF Len(stroke.points) < 2 THEN <<>>
    ELSE <<[op |-> "moveTo", to |-> stroke.points[1]]>>
         \o SmoothCurve(stroke.points, 2)
         \o <<[op |-> "lineTo", to |-> stroke.points[Len(stroke.points)]]>>

\* C32: the draw calls of a redraw are the items of the store with visible not
\* false, in store order, each drawn by the function of its type, followed by
\* the in-progress stroke when there is one; no hidden item is drawn, and a
\* stroke with fewer than 2 points gives no path command
RedrawDrawsVisible ==
    Rendered =>
        LET calls == renderCanvas(view)
            shown == SelectSeq(items, LAMBDA i : Get(i, "visible", TRUE) # FALSE)
        IN  /\ MapSeq(calls, LAMBDA c : c.item)
                  = shown \o (IF currentStroke # Null THEN <<currentStroke>> ELSE <<>>)
            /\ \A n \in 1..Len(calls) :
                  /\ Get(calls[n].item, "visible", TRUE) # FALSE
                  /\ (calls[n].fn = "drawStroke") = (calls[n].item.type = "stroke")
                  /\ calls[n].fn = "drawStroke" =>
                        (drawStroke(calls[n].item) = <<>>) = (Len(calls[n].item.points) < 2)

\* a redraw of a board that holds a hidden compass, with a one-point stroke in
\* progress: one draw call, and no path command
RedrewHiddenAndDot ==
    /\ Rendered
    /\ \E k \in 1..Len(items) : IsWidget(items[k]) /\ IsHidden(items[k])
    /\ currentStroke # Null
    /\ Len(currentStroke.points) = 1
    /\ Len(renderCanvas(view)) = 1
    /\ drawStroke(renderCanvas(view)[1].item) = <<>>

-----------------------------------------------------------------------------
(* The busy flag: the requests under the assumption that every awaited call settles *)

\* every awaited call settles: solveMathFromImage, generateTikzCode, compileTikz
Settling ==
    /\ WF_vars(Step(SolveResolved) \/ Step(SolveRejected))
    /\ WF_vars(Step(TikzCodeResolved) \/ Step(TikzCodeRejected))
    /\ WF_vars(\E response \in Responses : Step(TikzCompiled(response)))

SpecAILive == SpecAI /\ Settling

\* C33: the step in which the last awaited call of a solve or diagram request
\* settles, resolved or rejected, leaves the busy flag false, and whenever the
\* busy flag is set it is eventually cleared, given that the awaited calls settle
BusyEventuallyCleared ==
    /\ [][Outstanding' < Outstanding => ~isProcessing']_vars
    /\ isProcessing ~> ~isProcessing

\* a rejected request has just cleared the busy flag, before the re-render
RejectedClearedBusy ==
    /\ last.op = "request"
    /\ last.branch = "rejected"
    /\ Outstanding = 0
    /\ ~isProcessing
    /\ view.isProcessing

-----------------------------------------------------------------------------
(* The selection pointer and the selected flags *)

\* C34: the selection pointer and the selected flags agree: the pointer is
\* non-null exactly when some item of the store has selected = true, and it
\* then holds the id of that item
PointerAgreesWithFlags ==
    /\ (selectedItemId # 0) = (\E k \in 1..Len(items) : Get(items[k], "selected", FALSE))
    /\ \A k \in 1..Len(items) :
          Get(items[k], "selected", FALSE) => items[k].id = selectedItemId

\* C35: no hidden widget is the target of the selection: an item with
\* visible = false never has selected = true and is never named by the
\* selection pointer, so no wheel tick changes the angle of a hidden widget
HiddenNeverSelected ==
    /\ [](\A k \in 1..Len(items) :
             IsHidden(items[k]) =>
                 /\ ~Get(items[k], "selected", FALSE)
                 /\ items[k].id # selectedItemId)
    /\ [][\A d \in WheelDeltas :
             (last'.op = "wheel" /\ Wheel(d)) =>
                 \A k \in 1..Len(items) :
                    (IsWidget(items[k]) /\ IsHidden(items[k])) =>
                        items'[k].angle = items[k].angle]_vars

-----------------------------------------------------------------------------
(* The order of the store *)

\* the ids of a list of items, in the order of the list
Ids(its) == [k \in 1..Len(its) |-> its[k].id]

RECURSIVE IsSubseq(_, _)
\* a is b with some of its entries left out
IsSubseq(a, b) ==
    IF a = <<>> THEN TRUE
    ELSE IF b = <<>> THEN FALSE
    ELSE IF Head(a) = Head(b) THEN IsSubseq(Tail(a), Tail(b))
    ELSE IsSubseq(a, Tail(b))

\* C36: the relative order of the items that remain in the store never
\* changes: every step rewrites items in place, removes items, or appends one
\* item at the end, so that an item added later is above every earlier one
StoreOrderKept ==
    [][LET old == Ids(items)
           new == Ids(items')
       IN  \/ IsSubseq(new, old)
           \/ /\ new # <<>>
              /\ IsSubseq(SubSeq(new, 1, Len(new) - 1), old)
              /\ \/ \A k \in 1..Len(old) : old[k] # new[Len(new)]
                 \/ SubSeq(new, 1, Len(new) - 1) = old]_vars

\* a pointer-up has put a stroke above the compass that was in the store, and
\* the compass has been hidden in place since
StrokeAboveCompass ==
    /\ ~isDragging
    /\ currentStroke = Null
    /\ Len(items) = 2
    /\ items[1].type = "compass"
    /\ IsHidden(items[1])
    /\ items[2].type = "stroke"
    /\ items[1].id < items[2].id

-----------------------------------------------------------------------------
(* Pointer-up twice, and the ids of the store *)

\* C37: a stroke is appended to the store at most once: a pointer-up that
\* follows a pointer-up with no pointer-down in between appends nothing, and no
\* two items of the store have the same id
StrokeStoredOnce ==
    /\ [](\A j, k \in 1..Len(items) : items[j].id = items[k].id => j = k)
    /\ [][(~isDragging /\ (MouseUp \/ MouseLeave)) => items' = items]_vars

-----------------------------------------------------------------------------
(* getSnapPoint applied to its own result *)

\* every ruler and triangle that can snap is unrotated
Unrotated == \A k \in 1..Len(items) : SnapCandidate(items[k]) => items[k].angle = 0

\* C38: getSnapPoint is idempotent over unrotated instruments: if it returns a
\* point p for a cursor, it returns p for p
SnapIdempotent ==
    (probe # Null /\ snapResult # Null /\ Unrotated) =>
        getSnapPoint(snapResult.x, snapResult.y, items) = snapResult

\* C38, as the code has it: the point p returned for a cursor is a fixed point
\* of the snap on the widget that yielded it, and getSnapPoint returns p for p
\* unless a visible ruler or triangle earlier in the store yields a snap for p
SnapIdempotentOnWidget ==
    (probe # Null /\ snapResult # Null /\ Unrotated) =>
        LET p == snapResult
            k == FirstYielding(probe)
        IN  /\ SnapOnWidget(p.x, p.y, items[k], SnapThreshold) = p
            /\ (\A j \in Yielding(p) : j >= k) => getSnapPoint(p.x, p.y, items) = p

\* the cursor snapped onto the second widget of the store at a point within the
\* threshold of the first, which takes that point for itself
SnappedIntoReachOfEarlier ==
    /\ probe # Null
    /\ snapResult # Null
    /\ Unrotated
    /\ FirstYielding(probe) = 2
    /\ 1 \in Yielding(snapResult)
    /\ getSnapPoint(snapResult.x, snapResult.y, items) # snapResult

-----------------------------------------------------------------------------
(* The compass arc over several samples: the point appended and the pencil tip *)

\* a step of the component within the bounds, with room in the stroke in
\* progress for the pencil tip of the pointer-down and MaxPoints samples
StepArc(A) ==
    A /\ BoundedBy(MaxIds, MaxItems, MaxPoints + 1, MaxShift)'
      /\ UNCHANGED <<probe, snapResult, trip>>

NextArc ==
    \/ OnePointer /\ StepArc(AddWidget("compass"))
    \/ \E c \in CompassCursors : OnePointer /\ StepArc(MouseDown(c, 2))
    \/ \E c \in CompassCursors : StepArc(MouseMove(c))
    \/ StepArc(MouseUp)
    \/ StepArc(Render)

SpecArc == Init /\ [][NextArc]_vars

\* C39: at every pointer-move sample of a compass arc the point appended to the
\* stroke in progress is the pencil tip getCompassPoints yields for the compass
\* as that sample has updated it, several samples between two renders included
ArcPointIsPencil ==
    (last.op = "mouseMove" /\ last.branch = "compass_arc" /\ currentStroke # Null) =>
        \E k \in 1..Len(items) :
            /\ items[k].id = selectedItemId
            /\ currentStroke.points[Len(currentStroke.points)] = getCompassPoints(items[k]).pencil

\* C39, for the samples handled by a handler of the current state: the first
\* sample after a render appends the pencil tip of the compass as updated
ArcPointIsPencilWhenRendered ==
    [][\A c \in CompassCursors :
          (last'.op = "mouseMove" /\ last'.branch = "compass_arc" /\ Rendered /\ MouseMove(c)
             /\ currentStroke' # Null) =>
              \E k \in 1..Len(items') :
                  /\ items'[k].id = selectedItemId
                  /\ currentStroke'.points[Len(currentStroke'.points)]
                        = getCompassPoints(items'[k]).pencil]_vars

=============================================================================
